---------------------------- MODULE Spec2Model ----------------------------
(***************************************************************************)
(* A model of the AI service desk core: the JSON-backed ticket store       *)
(* (src/src/tools/create_ticket.py, get_ticket_status.py), the in-memory   *)
(* inventory store (src/src/agents/inventory_agent.py) and the local       *)
(* router (src/src/router_agent.py).                                       *)
(*                                                                         *)
(* Python strings are TLA+ strings; TLC treats them as sequences of        *)
(* one-character strings (Len, \o, SubSeq, Head, Tail).  Python's None is  *)
(* the value Null.                                                         *)
(***************************************************************************)
EXTENDS Integers, Sequences, FiniteSets, TLC

VARIABLES
    ticketsFile,   \* content of data/tickets.json
    created,       \* the tickets create_ticket has returned with status "success"
    tkCall,        \* the most recent ticket-store call: its name, argument, return value
    items,         \* InventoryAgent._items: normalized serial -> item dict
    heap,          \* the list objects the item dicts refer to: reference -> content
    invFile,       \* content of the file at InventoryAgent.persist_path
    invCall,       \* the most recent inventory call: its name, arguments, exception raised
    got,           \* the dict the caller holds from its last get_item call
    autosave,      \* InventoryAgent.autosave
    lookupFile,    \* content of data/inventory.json, which inventory_lookup reads
    rtCall,        \* the most recent local_route call: its arguments, return value
    tmp,           \* the temporary file of each thread's mkstemp call
    th,            \* each thread: where it is in its call, its local variables
    lock,          \* the RLock objects: owning thread and recursion count
    procOf,        \* the process each thread runs in
    down,          \* the processes that have crashed
    seen           \* the most recent read of a store file by another reader

ticketVars == <<ticketsFile, created, tkCall>>

invVars == <<items, heap, invFile, invCall, got, autosave>>

routeVars == <<lookupFile, rtCall>>

stepVars == <<tmp, th, lock, procOf, down, seen>>

vars == <<ticketVars, invVars, routeVars, stepVars>>

Null == "<None>"

NoCall == [op |-> "none"]

\* None where a dict is expected.
NoneDict == [none |-> TRUE]

\* An element of a JSON array, or a value of a JSON object, that is not an
\* object itself: a number, a string or null.
JsonScalar == [scalar |-> "7"]

\* isinstance(x, dict)
is_dict(x) == "scalar" \notin DOMAIN x

\* An exception that leaves the operation, where its return value would be.
Raised(exc) == [raised |-> exc]

(***************************************************************************)
(* Python string primitives, computed character by character.              *)
(***************************************************************************)
\* The strings here are ASCII; this character stands for U+0131, the dotless
\* small i, the one non-ASCII letter the messages contain.  str.upper() turns
\* it into "I", str.lower() leaves it alone, and it is a letter for
\* str.isalnum and for \w.
DotlessI == "~"

UpperOf ==
    "a" :> "A" @@ "b" :> "B" @@ "c" :> "C" @@ "d" :> "D" @@ "e" :> "E" @@
    "f" :> "F" @@ "g" :> "G" @@ "h" :> "H" @@ "i" :> "I" @@ "j" :> "J" @@
    "k" :> "K" @@ "l" :> "L" @@ "m" :> "M" @@ "n" :> "N" @@ "o" :> "O" @@
    "p" :> "P" @@ "q" :> "Q" @@ "r" :> "R" @@ "s" :> "S" @@ "t" :> "T" @@
    "u" :> "U" @@ "v" :> "V" @@ "w" :> "W" @@ "x" :> "X" @@ "y" :> "Y" @@
    "z" :> "Z" @@ DotlessI :> "I"

LowerOf ==
    "A" :> "a" @@ "B" :> "b" @@ "C" :> "c" @@ "D" :> "d" @@ "E" :> "e" @@
    "F" :> "f" @@ "G" :> "g" @@ "H" :> "h" @@ "I" :> "i" @@ "J" :> "j" @@
    "K" :> "k" @@ "L" :> "l" @@ "M" :> "m" @@ "N" :> "n" @@ "O" :> "o" @@
    "P" :> "p" @@ "Q" :> "q" @@ "R" :> "r" @@ "S" :> "s" @@ "T" :> "t" @@
    "U" :> "u" @@ "V" :> "v" @@ "W" :> "w" @@ "X" :> "x" @@ "Y" :> "y" @@
    "Z" :> "z"

IsSpace(c) == c \in {" ", "\t", "\n", "\r"}

RECURSIVE str_upper(_)
str_upper(s) ==
    IF s = "" THEN ""
    ELSE (IF Head(s) \in DOMAIN UpperOf THEN UpperOf[Head(s)] ELSE Head(s))
         \o str_upper(Tail(s))

RECURSIVE str_lower(_)
str_lower(s) ==
    IF s = "" THEN ""
    ELSE (IF Head(s) \in DOMAIN LowerOf THEN LowerOf[Head(s)] ELSE Head(s))
         \o str_lower(Tail(s))

RECURSIVE str_lstrip(_)
str_lstrip(s) ==
    IF s # "" /\ IsSpace(Head(s)) THEN str_lstrip(Tail(s)) ELSE s

RECURSIVE str_rstrip(_)
str_rstrip(s) ==
    IF s # "" /\ IsSpace(SubSeq(s, Len(s), Len(s)))
    THEN str_rstrip(SubSeq(s, 1, Len(s) - 1))
    ELSE s

str_strip(s) == str_rstrip(str_lstrip(s))

\* Python's `k in t` on strings: k occurs in t as a contiguous substring.
str_in(k, t) ==
    \E i \in 0..(Len(t) - Len(k)) : SubSeq(t, i + 1, i + Len(k)) = k

\* The length of the leading run of non-whitespace characters of s.
RECURSIVE word_len(_)
word_len(s) ==
    IF s # "" /\ ~IsSpace(Head(s)) THEN 1 + word_len(Tail(s)) ELSE 0

\* Python's s.split(): the maximal runs of non-whitespace characters.
RECURSIVE str_split(_)
str_split(s) ==
    LET t == str_lstrip(s)
        n == word_len(t)
    IN  IF t = "" THEN <<>>
        ELSE <<SubSeq(t, 1, n)>> \o str_split(SubSeq(t, n + 1, Len(t)))

\* Python's sep.join(parts).
RECURSIVE str_join(_, _)
str_join(sep, parts) ==
    IF parts = <<>> THEN ""
    ELSE IF Len(parts) = 1 THEN parts[1]
    ELSE parts[1] \o sep \o str_join(sep, Tail(parts))

Min(S) == CHOOSE x \in S : \A y \in S : x <= y

\* Python truthiness of a string-or-None value.
Falsy(x) == x = Null \/ x = ""

(***************************************************************************)
(* Inventory store: src/src/agents/inventory_agent.py                      *)
(*                                                                         *)
(* An item dict is a record of its keys serial, status, owner, tags,       *)
(* allocations and releases (model, make, location, metadata and the       *)
(* timestamps are left out).  The values of tags, allocations and releases *)
(* are Python lists, which are objects: the record holds a reference into  *)
(* heap, and NoRef stands for a key the dict does not have.  A list the    *)
(* store refers to is named by its place, <<serial, key>>; a list only the *)
(* caller's copy still refers to is named <<"caller", key>>.  A history    *)
(* entry is recorded without its timestamp.  The agent is constructed with *)
(* a persist_path and autosave=True.                                       *)
(***************************************************************************)
MaxHist == 3

NoRef == <<>>

Users == {"alice", "bob"}

\* The dicts passed to add_item.
AddArgs ==
    { [serial |-> "sn1"],
      [serial |-> " SN1 "],
      [serial |-> "sn2"],
      [serial |-> "sn1", status |-> "allocated"],
      [serial |-> "sn1", status |-> "allocated", owner |-> "alice"],
      [serial |-> ""],
      [status |-> "available"] }

\* The serials passed to update_item, remove_item and get_item.
SerialArgs == {" sn1 ", "SN2"}

\* The serials passed to allocate_device and release_device.
DeviceArgs == {" sn1 ", "sn3"}

\* The dicts passed to update_item.
UpdateArgs ==
    { [status |-> "allocated"],
      [serial |-> "sn9", owner |-> "bob"],
      [releases |-> <<>>] }

ListKeys == {"tags", "allocations", "releases"}

HistoryKeys == {"allocations", "releases"}

_normalize_serial(serial) == str_upper(str_strip(serial))

SerialKeys == {"SN1", "SN2"}

Refs == (SerialKeys \cup {"caller"}) \X ListKeys

NoCopy == [none |-> TRUE]

dict_get(d, k, default) == IF k \in DOMAIN d THEN d[k] ELSE default

Raise(exc, its, hp) ==
    [raised |-> exc, items |-> its, heap |-> hp, dropped |-> {}]

\* dropped: the lists the store referred to before the call and no longer does.
Return(its, hp, dropped) ==
    [raised |-> "none", items |-> its, heap |-> hp, dropped |-> dropped]

\* The value of d[k] for a list-valued key: absent, or the list's content.
ListValue(hp, ref) ==
    IF ref = NoRef THEN [present |-> FALSE]
    ELSE [present |-> TRUE, value |-> hp[ref]]

\* json.dump of one item dict.
DumpItem(hp, d) ==
    [serial |-> d.serial, status |-> d.status, owner |-> d.owner,
     tags |-> ListValue(hp, d.tags),
     allocations |-> ListValue(hp, d.allocations),
     releases |-> ListValue(hp, d.releases)]

\* InventoryAgent.save: the file holds json.dump(self._items).
save(its, hp) ==
    [kind |-> "dict", data |-> [k \in DOMAIN its |-> DumpItem(hp, its[k])]]

\* add_item looking the serial up as given, not normalized.
add_item_raw_lookup(its, hp, item) ==
    LET serial == dict_get(item, "serial", Null)
        serial_n == _normalize_serial(serial)
        tags == <<serial_n, "tags">>
        stored == [serial |-> serial_n,
                   status |-> dict_get(item, "status", "available"),
                   owner |-> dict_get(item, "owner", Null),
                   tags |-> tags,
                   allocations |-> NoRef,
                   releases |-> NoRef]
    IN  IF Falsy(serial) THEN Raise("ValueError", its, hp)
        ELSE IF serial \in DOMAIN its THEN Raise("KeyError", its, hp)
        ELSE Return((serial_n :> stored) @@ its,
                    [hp EXCEPT ![tags] = dict_get(item, "tags", <<>>)],
                    {})

add_item(its, hp, item) ==
    LET serial == dict_get(item, "serial", Null)
        serial_n == _normalize_serial(serial)
        tags == <<serial_n, "tags">>
        stored == [serial |-> serial_n,
                   status |-> dict_get(item, "status", "available"),
                   owner |-> dict_get(item, "owner", Null),
                   tags |-> tags,
                   allocations |-> NoRef,
                   releases |-> NoRef]
    IN  IF Falsy(serial) THEN Raise("ValueError", its, hp)
        ELSE IF serial_n \in DOMAIN its THEN Raise("KeyError", its, hp)
        ELSE Return((serial_n :> stored) @@ its,
                    [hp EXCEPT ![tags] = dict_get(item, "tags", <<>>)],
                    {})

\* update_item without updates.pop("serial", None).
update_item_serial_kept(its, hp, serial, updates) ==
    LET serial_n == _normalize_serial(serial)
        keys == DOMAIN updates
        item == its[serial_n]
        merged == [k \in DOMAIN item |->
                      IF k \notin keys THEN item[k]
                      ELSE IF k \in ListKeys THEN <<serial_n, k>>
                      ELSE updates[k]]
    IN  IF serial_n \notin DOMAIN its THEN Raise("KeyError", its, hp)
        ELSE Return([its EXCEPT ![serial_n] = merged],
                    [r \in Refs |->
                        IF r[1] = serial_n /\ r[2] \in keys
                        THEN updates[r[2]] ELSE hp[r]],
                    {item[k] : k \in keys \cap ListKeys} \ {NoRef})

update_item(its, hp, serial, updates) ==
    LET serial_n == _normalize_serial(serial)
        keys == DOMAIN updates \ {"serial"}
        item == its[serial_n]
        merged == [k \in DOMAIN item |->
                      IF k \notin keys THEN item[k]
                      ELSE IF k \in ListKeys THEN <<serial_n, k>>
                      ELSE updates[k]]
    IN  IF serial_n \notin DOMAIN its THEN Raise("KeyError", its, hp)
        ELSE Return([its EXCEPT ![serial_n] = merged],
                    [r \in Refs |->
                        IF r[1] = serial_n /\ r[2] \in keys
                        THEN updates[r[2]] ELSE hp[r]],
                    {item[k] : k \in keys \cap ListKeys} \ {NoRef})

remove_item(its, hp, serial) ==
    LET serial_n == _normalize_serial(serial)
    IN  IF serial_n \notin DOMAIN its THEN Raise("KeyError", its, hp)
        ELSE Return([k \in DOMAIN its \ {serial_n} |-> its[k]],
                    [r \in Refs |-> IF r[1] = serial_n THEN <<>> ELSE hp[r]],
                    {its[serial_n][k] : k \in ListKeys} \ {NoRef})

\* get_item(serial): dict(item), a new dict holding the same values.
get_item(its, serial) ==
    LET serial_n == _normalize_serial(serial)
    IN  IF serial_n \in DOMAIN its THEN its[serial_n] ELSE NoCopy

\* allocate_device without the check of the item's status.
allocate_device_unchecked(its, hp, serial, user, reason) ==
    LET serial_n == _normalize_serial(serial)
        item == its[serial_n]
        lst == IF item.allocations = NoRef
               THEN <<serial_n, "allocations">> ELSE item.allocations
    IN  IF serial_n \notin DOMAIN its THEN Raise("KeyError", its, hp)
        ELSE Return([its EXCEPT ![serial_n] =
                        [item EXCEPT !.status = "allocated",
                                     !.owner = user,
                                     !.allocations = lst]],
                    [hp EXCEPT ![lst] =
                        Append(@, [user |-> user, reason |-> reason])],
                    {})

allocate_device(its, hp, serial, user, reason) ==
    LET serial_n == _normalize_serial(serial)
        item == its[serial_n]
        \* item.setdefault("allocations", [])
        lst == IF item.allocations = NoRef
               THEN <<serial_n, "allocations">> ELSE item.allocations
    IN  IF serial_n \notin DOMAIN its THEN Raise("KeyError", its, hp)
        ELSE IF item.status = "allocated" THEN Raise("RuntimeError", its, hp)
        ELSE Return([its EXCEPT ![serial_n] =
                        [item EXCEPT !.status = "allocated",
                                     !.owner = user,
                                     !.allocations = lst]],
                    [hp EXCEPT ![lst] =
                        Append(@, [user |-> user, reason |-> reason])],
                    {})

\* release_device reading the owner after it has cleared it.
release_device_owner_read_late(its, hp, serial) ==
    LET serial_n == _normalize_serial(serial)
        item == its[serial_n]
        lst == IF item.releases = NoRef
               THEN <<serial_n, "releases">> ELSE item.releases
    IN  IF serial_n \notin DOMAIN its THEN Raise("KeyError", its, hp)
        ELSE Return([its EXCEPT ![serial_n] =
                        [item EXCEPT !.status = "available",
                                     !.owner = Null,
                                     !.releases = lst]],
                    [hp EXCEPT ![lst] =
                        Append(@, [previous_owner |-> Null])],
                    {})

release_device(its, hp, serial) ==
    LET serial_n == _normalize_serial(serial)
        item == its[serial_n]
        previous_owner == item.owner
        \* item.setdefault("releases", [])
        lst == IF item.releases = NoRef
               THEN <<serial_n, "releases">> ELSE item.releases
    IN  IF serial_n \notin DOMAIN its THEN Raise("KeyError", its, hp)
        ELSE Return([its EXCEPT ![serial_n] =
                        [item EXCEPT !.status = "available",
                                     !.owner = Null,
                                     !.releases = lst]],
                    [hp EXCEPT ![lst] =
                        Append(@, [previous_owner |-> previous_owner])],
                    {})

RECURSIVE SumOver(_, _)
SumOver(f, S) ==
    IF S = {} THEN 0
    ELSE LET x == CHOOSE y \in S : TRUE IN f[x] + SumOver(f, S \ {x})

\* The number of history entries the store holds.
HistTotal ==
    SumOver([r \in Refs |-> Len(heap[r])], SerialKeys \X HistoryKeys)

\* The number of entries of all the lists.
HeapTotal == SumOver([r \in Refs |-> Len(heap[r])], Refs)

\* A mutating call returned or raised: the autosave (which runs only when
\* the call did not raise before it), the record of the call, and the
\* renaming of the lists that only the caller's copy still refers to.
Mutated(op, serial, user, r) ==
    LET moved == IF got = NoCopy THEN {}
                 ELSE {k \in ListKeys : got[k] \in r.dropped}
    IN  /\ items' = r.items
        /\ heap' = [ref \in Refs |->
                       IF ref[1] = "caller" /\ ref[2] \in moved
                       THEN heap[got[ref[2]]] ELSE r.heap[ref]]
        /\ got' = IF got = NoCopy THEN got
                  ELSE [k \in DOMAIN got |->
                           IF k \in moved THEN <<"caller", k>> ELSE got[k]]
        /\ invFile' = IF r.raised = "none" /\ autosave
                      THEN save(r.items, r.heap)
                      ELSE invFile
        /\ UNCHANGED autosave
        /\ invCall' = [op |-> op, serial |-> serial, user |-> user,
                       raised |-> r.raised]

AddItem ==
    \E item \in AddArgs :
        /\ Mutated("add_item", dict_get(item, "serial", Null), Null,
                   add_item(items, heap, item))
        /\ UNCHANGED <<ticketVars, routeVars, stepVars>>

UpdateItem ==
    \E serial \in SerialArgs, updates \in UpdateArgs :
        /\ Mutated("update_item", serial, Null,
                   update_item(items, heap, serial, updates))
        /\ UNCHANGED <<ticketVars, routeVars, stepVars>>

RemoveItem ==
    \E serial \in SerialArgs :
        /\ Mutated("remove_item", serial, Null,
                   remove_item(items, heap, serial))
        /\ UNCHANGED <<ticketVars, routeVars, stepVars>>

AllocateDevice ==
    \E serial \in DeviceArgs, user \in Users :
        /\ HistTotal < MaxHist
        /\ Mutated("allocate_device", serial, user,
                   allocate_device(items, heap, serial, user, Null))
        /\ UNCHANGED <<ticketVars, routeVars, stepVars>>

ReleaseDevice ==
    \E serial \in DeviceArgs :
        /\ HistTotal < MaxHist
        /\ Mutated("release_device", serial, Null,
                   release_device(items, heap, serial))
        /\ UNCHANGED <<ticketVars, routeVars, stepVars>>

GetItem ==
    \E serial \in SerialArgs :
        /\ got' = get_item(items, serial)
        \* the dict of the previous call, and what only it referred to, is gone
        /\ heap' = [r \in Refs |-> IF r[1] = "caller" THEN <<>> ELSE heap[r]]
        /\ invCall' = [op |-> "get_item", serial |-> serial, user |-> Null,
                       raised |-> "none"]
        /\ UNCHANGED <<items, invFile, autosave>>
        /\ UNCHANGED <<ticketVars, routeVars, stepVars>>

\* The caller assigns to a key of the dict get_item returned.
CallerSetsKey ==
    /\ got # NoCopy
    /\ got' = [got EXCEPT !.owner = "mallory"]
    /\ invCall' = [op |-> "caller_sets_key", serial |-> got.serial,
                   user |-> Null, raised |-> "none"]
    /\ UNCHANGED <<items, heap, invFile, autosave>>
    /\ UNCHANGED <<ticketVars, routeVars, stepVars>>

\* What the caller appends to the list under key k.
CallerEntry(k) ==
    CASE k = "tags" -> "x"
      [] k = "allocations" -> [user |-> "mallory", reason |-> Null]
      [] k = "releases" -> [previous_owner |-> "mallory"]

\* The caller appends to a list held by the dict get_item returned.
CallerAppends ==
    /\ got # NoCopy
    /\ \E k \in ListKeys :
          /\ got[k] # NoRef
          /\ HeapTotal < MaxHist
          /\ heap' = [heap EXCEPT ![got[k]] = Append(@, CallerEntry(k))]
    /\ invCall' = [op |-> "caller_appends", serial |-> got.serial,
                   user |-> Null, raised |-> "none"]
    /\ UNCHANGED <<items, got, invFile, autosave>>
    /\ UNCHANGED <<ticketVars, routeVars, stepVars>>

InitInventory ==
    /\ items = <<>>
    /\ heap = [r \in Refs |-> <<>>]
    /\ invFile = [kind |-> "absent"]
    /\ invCall = NoCall
    /\ got = NoCopy
    /\ autosave = TRUE

(***************************************************************************)
(* Ticket store: src/src/tools/create_ticket.py, get_ticket_status.py      *)
(*                                                                         *)
(* The file is [kind, data]: "absent" (no file), "list" (a JSON array),    *)
(* "wrapped" (an object holding the array under "tickets"), "invalid"      *)
(* (not JSON, or JSON of another shape).  A ticket is the dict create_ticket*)
(* builds, without its timestamps and notes.                               *)
(***************************************************************************)
MaxTickets == 3

TicketHexLen == 8

\* Values uuid.uuid4().hex may take.
UuidHexes ==
    { "3fa85f6457174562b3fc2c963f66afa6",
      "c0ffee0012344abc9def0123456789ab" }

CustomerNames == {"Sita", " Sita ", " ", ""}
Phones == {"+977  1234567", "+977 1234567"}
DeviceSkus == {" A123 "}
Issues == {"broken screen"}

AbsentFile == [kind |-> "absent", data |-> <<>>]
InvalidFile == [kind |-> "invalid", data |-> <<>>]

SeedTicket(id, st) ==
    [ticket_id |-> id, customer_name |-> "Ram", phone |-> "+977 9850000000",
     device |-> "XPS-13", issue |-> "Battery not charging",
     priority |-> "high", status |-> st]

SeedList ==
    << SeedTicket("TICKET-0012", "received"),
       SeedTicket("TICKET-001", "in_progress") >>

\* Contents data/tickets.json may have when the process starts.
SeedFiles ==
    { AbsentFile,
      InvalidFile,
      [kind |-> "list", data |-> SeedList],
      [kind |-> "wrapped",
       data |-> << SeedTicket("TICKET-ABCDEF12", "received") >>] }

RawQueries ==
    {"TICKET-001", " ticket-001 ", "001", "ABCDEF", "TICKET-9", " ", "", Null}

_read_tickets(f) ==
    CASE f.kind = "absent" -> <<>>
      [] f.kind = "list" -> f.data
      [] f.kind = "wrapped" -> f.data
      [] OTHER -> <<>>

_atomic_write_tickets(tickets) == [kind |-> "list", data |-> tickets]

_validate_phone(phone) ==
    IF Falsy(phone) THEN "" ELSE str_join(" ", str_split(phone))

\* What the file operations of one call do: all succeed, the read raises
\* (and _read_tickets returns []), or the write raises.
IoOutcomes == {"ok", "read_fails", "write_fails"}

\* not (customer_name and device_sku and issue)
missing_required(customer_name, device_sku, issue) ==
    Falsy(customer_name) \/ Falsy(device_sku) \/ Falsy(issue)

\* The ticket dict create_ticket builds, with uuid.uuid4().hex = hex.
build_ticket(customer_name, phone, device_sku, issue, priority, hex) ==
    [ticket_id |-> "TICKET-" \o str_upper(SubSeq(hex, 1, TicketHexLen)),
     customer_name |-> str_strip(customer_name),
     phone |-> _validate_phone(phone),
     device |-> str_strip(device_sku),
     issue |-> str_strip(issue),
     priority |-> priority,
     status |-> "received"]

\* create_ticket with uuid.uuid4().hex = hex, on file f, its file
\* operations going as io says: the value returned and the file left behind.
create_ticket(f, customer_name, phone, device_sku, issue, priority, hex, io) ==
    IF missing_required(customer_name, device_sku, issue)
    THEN [result |-> [status |-> "error",
                      message |-> "Missing required fields: customer_name, device_sku, and issue are required."],
          file |-> f]
    ELSE LET ticket == build_ticket(customer_name, phone, device_sku, issue,
                                    priority, hex)
             read == IF io = "read_fails" THEN <<>> ELSE _read_tickets(f)
             tickets == Append(read, ticket)
         IN  IF io = "write_fails"
             THEN [result |-> [status |-> "error",
                               message |-> "Failed to write ticket: OSError"],
                   file |-> f]
             ELSE [result |-> [status |-> "success", ticket |-> ticket],
                   file |-> _atomic_write_tickets(tickets)]

\* A one-pass lookup: the first ticket whose id contains the query, flagged
\* partial unless the ids are equal.
get_ticket_status_one_pass(f, ticket_id) ==
    IF Falsy(ticket_id)
    THEN [status |-> "error", message |-> "ticket_id is required"]
    ELSE LET ticket_id_norm == str_upper(str_strip(ticket_id))
             tickets == _read_tickets(f)
             Partial(t) == str_in(ticket_id_norm, str_upper(t.ticket_id))
             matches == SelectSeq(tickets, Partial)
         IN  IF matches = <<>>
             THEN [status |-> "error",
                   message |-> "Ticket " \o ticket_id \o " not found"]
             ELSE IF str_upper(matches[1].ticket_id) = ticket_id_norm
             THEN [status |-> "success", ticket |-> matches[1]]
             ELSE [status |-> "success", ticket |-> matches[1],
                   note |-> "partial_match"]

get_ticket_status(f, ticket_id) ==
    IF Falsy(ticket_id)
    THEN [status |-> "error", message |-> "ticket_id is required"]
    ELSE LET ticket_id_norm == str_upper(str_strip(ticket_id))
             tickets == _read_tickets(f)
             StoredId(t) == str_upper(dict_get(t, "ticket_id", ""))
             exact == {i \in 1..Len(tickets) :
                          /\ is_dict(tickets[i])
                          /\ StoredId(tickets[i]) = ticket_id_norm}
             Partial(t) == str_in(ticket_id_norm, StoredId(t))
             matches == SelectSeq(tickets, Partial)
         IN  IF exact # {}
             THEN [status |-> "success", ticket |-> tickets[Min(exact)]]
             ELSE IF \E i \in 1..Len(tickets) : ~is_dict(tickets[i])
             THEN Raised("AttributeError")
             ELSE IF matches # <<>>
             THEN [status |-> "success", ticket |-> matches[1],
                   note |-> "partial_match"]
             ELSE [status |-> "error",
                   message |-> "Ticket " \o ticket_id \o " not found"]

CreateTicket ==
    \E cn \in CustomerNames, ph \in Phones, dev \in DeviceSkus,
       iss \in Issues, hex \in UuidHexes, io \in IoOutcomes :
        LET r == create_ticket(ticketsFile, cn, ph, dev, iss, "normal", hex, io)
        IN  /\ Len(_read_tickets(ticketsFile)) < MaxTickets
            /\ ticketsFile' = r.file
            /\ tkCall' = [op |-> "create_ticket", arg |-> cn, result |-> r.result]
            /\ created' = IF r.result.status = "success"
                          THEN created \cup {r.result.ticket}
                          ELSE created
            /\ UNCHANGED <<invVars, routeVars, stepVars>>

GetTicketStatus ==
    \E q \in RawQueries \cup {t.ticket_id : t \in created} :
        /\ tkCall' = [op |-> "get_ticket_status", arg |-> q,
                      result |-> get_ticket_status(ticketsFile, q)]
        /\ UNCHANGED <<ticketsFile, created>>
        /\ UNCHANGED <<invVars, routeVars, stepVars>>

(***************************************************************************)
(* Inventory lookup: src/src/tools/inventory_lookup.py                     *)
(***************************************************************************)
MaxResults == 10

Digits == {"0", "1", "2", "3", "4", "5", "6", "7", "8", "9"}

IsAlnum(c) == c \in Digits \cup DOMAIN UpperOf \cup DOMAIN LowerOf

\* \w of Python's re module.
IsWordChar(c) == IsAlnum(c) \/ c = "_"

\* The length of the leading run of \w characters of s.
RECURSIVE word_run(_)
word_run(s) ==
    IF s # "" /\ IsWordChar(Head(s)) THEN 1 + word_run(Tail(s)) ELSE 0

\* The non-empty strings of re.split(r"\W+", s).
RECURSIVE re_split_words(_)
re_split_words(s) ==
    IF s = "" THEN <<>>
    ELSE LET n == word_run(s)
         IN  IF n = 0 THEN re_split_words(Tail(s))
             ELSE <<SubSeq(s, 1, n)>> \o re_split_words(SubSeq(s, n + 1, Len(s)))

InSeq(x, seq) == \E i \in 1..Len(seq) : seq[i] = x

DigitStr == <<"0", "1", "2", "3", "4", "5", "6", "7", "8", "9">>

\* str(n) for a natural number n.
RECURSIVE int_str(_)
int_str(n) ==
    IF n < 10 THEN DigitStr[n + 1]
    ELSE int_str(n \div 10) \o DigitStr[(n % 10) + 1]

CatalogItem(sku, model, brand, category, description) ==
    [sku |-> sku, model |-> model, brand |-> brand, category |-> category,
     description |-> description]

\* Contents data/inventory.json may have.
SeedCatalogs ==
    { [kind |-> "absent", data |-> <<>>],
      [kind |-> "list",
       data |-> << CatalogItem("HP-LJ1020", "HP LaserJet 1020", "HP",
                               "printer", "Monochrome laser printer"),
                   CatalogItem("XPS13-9310", "Dell XPS 13 9310", "Dell",
                               "laptop", "Intel i7, 16GB RAM") >>] }

_read_inventory(f) ==
    CASE f.kind = "absent" -> <<>>
      [] f.kind = "list" -> f.data
      [] f.kind = "wrapped" -> f.data
      [] OTHER -> <<>>

_normalize_text(x) == IF x = Null THEN "" ELSE str_lower(x)

\* str(x) of a string or None.
py_str(x) == IF x = Null THEN "None" ELSE x

\* What one term adds to the score of an item.
TermScore(item, t) ==
    LET sku == _normalize_text(dict_get(item, "sku", ""))
        model == _normalize_text(dict_get(item, "model", ""))
        brand == _normalize_text(dict_get(item, "brand", ""))
        category == _normalize_text(dict_get(item, "category", ""))
        description == _normalize_text(dict_get(item, "description", ""))
        joined == str_join(" ", <<sku, model, brand, category, description>>)
    IN  (IF str_in(t, sku) THEN 4 ELSE 0)
        + (IF str_in(t, model) THEN 3 ELSE 0)
        + (IF str_in(t, brand) \/ str_in(t, category) THEN 2 ELSE 0)
        + (IF str_in(t, description) THEN 1 ELSE 0)
        + (IF InSeq(t, re_split_words(joined)) THEN 1 ELSE 0)

RECURSIVE _score_item(_, _)
_score_item(item, terms) ==
    IF terms = <<>> THEN 0
    ELSE TermScore(item, Head(terms)) + _score_item(item, Tail(terms))

\* scored.sort(key=score, reverse=True), a stable sort: the positions of
\* scored (a sequence of <<score, item>>) in sorted order.
RECURSIVE SortedByScore(_, _)
SortedByScore(scored, left) ==
    IF left = {} THEN <<>>
    ELSE LET best == CHOOSE i \in left :
                        \A j \in left :
                            \/ scored[i][1] > scored[j][1]
                            \/ scored[i][1] = scored[j][1] /\ i <= j
         IN  <<scored[best]>> \o SortedByScore(scored, left \ {best})

inventory_lookup(f, query) ==
    LET q == str_lower(str_strip(query))
        terms == re_split_words(q)
        items_ == _read_inventory(f)
        Positive(p) == p[1] > 0
        \* _score_item raises on an item that is no dict, and the loop
        \* takes the score as 0 then.
        Score(item) == IF is_dict(item) THEN _score_item(item, terms) ELSE 0
        scored == SelectSeq([i \in 1..Len(items_) |->
                                <<Score(items_[i]), items_[i]>>],
                            Positive)
        Field(item, k) == str_lower(py_str(dict_get(item, k, "")))
        Contained(item) ==
            \E i \in 1..Len(terms) :
                str_in(terms[i],
                       str_join(" ", <<Field(item, "sku"), Field(item, "model"),
                                       Field(item, "brand"),
                                       Field(item, "category"),
                                       Field(item, "description")>>))
        fallback == [i \in 1..Len(SelectSeq(items_, Contained)) |->
                        <<1, SelectSeq(items_, Contained)[i]>>]
        chosen == IF scored # <<>> THEN scored ELSE fallback
        sorted == SortedByScore(chosen, 1..Len(chosen))
        results == [i \in 1..(IF Len(sorted) < MaxResults THEN Len(sorted)
                              ELSE MaxResults) |-> sorted[i][2]]
    IN  IF query = Null
        THEN [status |-> "error", message |-> "query is required"]
        ELSE IF q = ""
        THEN [status |-> "error", message |-> "query is empty"]
        ELSE IF terms = <<>>
        THEN [status |-> "error", message |-> "no searchable terms found"]
        ELSE IF scored = <<>> /\ \E i \in 1..Len(items_) : ~is_dict(items_[i])
        THEN Raised("AttributeError")
        ELSE [status |-> "success", results |-> results, count |-> Len(results)]

(***************************************************************************)
(* The timestamps of a ticket: src/src/tools/create_ticket.py              *)
(***************************************************************************)
\* The clock counts milliseconds since 2025-01-01T00:00:00 UTC.
MillisPerSecond == 1000

\* What datetime.utcnow() returns at the first clock read of a call, and by
\* how much the clock has advanced at the second.
ClockReads == {41000, 41999, 59999}

ClockAdvances == {0, 1}

\* A two-digit decimal number.
two_digits(n) == (IF n < 10 THEN "0" ELSE "") \o int_str(n)

\* datetime.utcnow().replace(microsecond=0).isoformat() + "Z" when the
\* clock shows now: the part of the second is dropped.
_current_iso_ts(now) ==
    LET secs == now \div MillisPerSecond
    IN  "2025-01-01T00:" \o two_digits((secs \div 60) % 60) \o ":"
            \o two_digits(secs % 60) \o "Z"

\* The ticket dict with its two timestamps, each from its own clock read.
stamp_ticket(ticket, now1, now2) ==
    [created_at |-> _current_iso_ts(now1), updated_at |-> _current_iso_ts(now2)]
        @@ ticket

\* create_ticket with the clock reading now1 when created_at is filled and
\* now2 when updated_at is.
create_ticket_at(f, customer_name, phone, device_sku, issue, priority, hex, io, now1, now2) ==
    LET r == create_ticket(f, customer_name, phone, device_sku, issue,
                           priority, hex, io)
        n == Len(r.file.data)
    IN  IF r.result.status # "success" THEN r
        ELSE [result |-> [r.result EXCEPT
                             !.ticket = stamp_ticket(@, now1, now2)],
              file |-> [r.file EXCEPT
                           !.data[n] = stamp_ticket(@, now1, now2)]]

\* create_ticket is called while the clock runs.
CreateTicketAt ==
    \E cn \in CustomerNames, ph \in Phones, dev \in DeviceSkus,
       iss \in Issues, hex \in UuidHexes, now \in ClockReads,
       d \in ClockAdvances :
        LET r == create_ticket_at(ticketsFile, cn, ph, dev, iss, "normal", hex,
                                  "ok", now, now + d)
        IN  /\ Len(_read_tickets(ticketsFile)) < MaxTickets
            /\ ticketsFile' = r.file
            /\ tkCall' = [op |-> "create_ticket", arg |-> cn, result |-> r.result]
            /\ created' = IF r.result.status = "success"
                          THEN created \cup {r.result.ticket}
                          ELSE created
            /\ UNCHANGED <<invVars, routeVars, stepVars>>

(***************************************************************************)
(* Router: src/src/router_agent.py                                         *)
(***************************************************************************)
RepairKeywords ==
    <<"ticket", "repair", "fix", "create ticket", "i need a repair",
      "repair request">>

InventoryKeywords ==
    <<"stock", "price", "how much", "availability", "in stock", "do you have">>

StatusKeywords ==
    <<"status", "ticket-", "ticket ", "tkt", "where is my ticket">>

TroubleshootKeywords ==
    <<"doesn't work", "not working", "paper jam", "overheat", "no power",
      "no display", "not printing">>

\* any(k in t for k in keywords)
AnyIn(keywords, t) == \E i \in 1..Len(keywords) : str_in(keywords[i], t)

\* The classifier with the inventory keywords tested before the repair ones.
_detect_intent_inventory_first(text) ==
    LET t == str_lower(IF Falsy(text) THEN "" ELSE text)
    IN  IF AnyIn(InventoryKeywords, t) THEN "inventory_query"
        ELSE IF AnyIn(RepairKeywords, t) THEN "repair_intake"
        ELSE IF AnyIn(StatusKeywords, t) THEN "status_query"
        ELSE IF AnyIn(TroubleshootKeywords, t) THEN "troubleshoot"
        ELSE "fallback"

_detect_intent(text) ==
    LET t == str_lower(IF Falsy(text) THEN "" ELSE text)
    IN  IF AnyIn(RepairKeywords, t) THEN "repair_intake"
        ELSE IF AnyIn(InventoryKeywords, t) THEN "inventory_query"
        ELSE IF AnyIn(StatusKeywords, t) THEN "status_query"
        ELSE IF AnyIn(TroubleshootKeywords, t) THEN "troubleshoot"
        ELSE "fallback"

\* The length of the leading run of characters of s that are in class cls.
RECURSIVE run_len(_, _)
run_len(s, cls) ==
    IF s # "" /\ Head(s) \in cls THEN 1 + run_len(Tail(s), cls) ELSE 0

\* s[a-1:b] of Python: the slice is cut at the end of the string.
str_slice(s, a, b) == SubSeq(s, a, IF b < Len(s) THEN b ELSE Len(s))

AlnumChars == Digits \cup DOMAIN UpperOf \cup DOMAIN LowerOf

SpaceChars == {" ", "\t", "\n", "\r"}

RECURSIVE str_replace_char(_, _, _)
str_replace_char(s, old, new) ==
    IF s = "" THEN ""
    ELSE (IF Head(s) = old THEN new ELSE Head(s))
         \o str_replace_char(Tail(s), old, new)

\* The form under which re.IGNORECASE compares a letter of the text with a
\* letter of the pattern: "I" of the pattern matches "I", "i" and U+0131.
re_ignorecase(s) == str_replace_char(str_lower(s), DotlessI, "i")

\* The match of (TICKET[- ]?[0-9A-Za-z]{3,}), ignoring case, at position i
\* of text, or "" when there is none.
TicketMatchAt(text, i) ==
    LET rest == str_slice(text, i + 6, Len(text))
        sep == IF rest # "" /\ Head(rest) \in {"-", " "} THEN 1 ELSE 0
        withSep == run_len(SubSeq(rest, sep + 1, Len(rest)), AlnumChars)
        noSep == run_len(rest, AlnumChars)
    IN  IF re_ignorecase(str_slice(text, i, i + 5)) # "ticket" THEN ""
        ELSE IF sep = 1 /\ withSep >= 3 THEN SubSeq(text, i, i + 5 + sep + withSep)
        ELSE IF noSep >= 3 THEN SubSeq(text, i, i + 5 + noSep)
        ELSE ""

\* The group of ticket\s+([0-9]{2,}), ignoring case, at position i of text,
\* or "" when there is no match.
TicketNumberAt(text, i) ==
    LET rest == str_slice(text, i + 6, Len(text))
        spaces == run_len(rest, SpaceChars)
        digits == run_len(SubSeq(rest, spaces + 1, Len(rest)), Digits)
    IN  IF re_ignorecase(str_slice(text, i, i + 5)) # "ticket" THEN ""
        ELSE IF spaces >= 1 /\ digits >= 2
        THEN SubSeq(rest, spaces + 1, spaces + digits)
        ELSE ""

_extract_ticket_id(text) ==
    IF Falsy(text) THEN Null
    ELSE LET at1 == {i \in 1..Len(text) : TicketMatchAt(text, i) # ""}
             at2 == {i \in 1..Len(text) : TicketNumberAt(text, i) # ""}
         IN  IF at1 # {}
             THEN str_replace_char(
                      str_upper(str_strip(TicketMatchAt(text, Min(at1)))),
                      " ", "-")
             ELSE IF at2 # {}
             THEN "TICKET-" \o TicketNumberAt(text, Min(at2))
             ELSE Null

\* The messages passed to local_route.
Messages ==
    { "I need a repair",
      "Repair for Sita, phone +977-1234567, device A123",
      "",
      "Please FIX my printer, is it in stock?",
      "What's the status of ticket TICKET-0001?",
      "Do you have XPS in stock",
      "status please",
      "status of tkt 0012",
      "status t" \o DotlessI \o "cket-001",
      "printer not working",
      "laptop broken" }

\* The session states passed to local_route; the empty dict also stands for
\* a session_state of None, which local_route replaces by {}.
Sessions ==
    { <<>>,
      [customer_name |-> "Sita", phone |-> "+977-1234567", device_sku |-> "A123"],
      [customer_name |-> "Sita", phone |-> "", device_sku |-> "A123"],
      [customer_name |-> "", phone |-> "+977-1234567"],
      [device_sku |-> "A123", ticket_id |-> "ticket-001"],
      [ticket_id |-> "TICKET-77"] }

\* _detect_intent and _extract_ticket_id of every message, computed once.
IntentOf == [m \in Messages |-> _detect_intent(m)]

TicketIdOf == [m \in Messages |-> _extract_ticket_id(m)]

\* inventory_lookup of every message on every catalog, computed once.
LookupOf ==
    [cf \in SeedCatalogs |-> [m \in Messages |-> inventory_lookup(cf, m)]]

\* The required fields the session lacks, as local_route names them.
missing_fields_phone_unchecked(session_state) ==
    (IF Falsy(dict_get(session_state, "customer_name", Null))
     THEN <<"customer_name">> ELSE <<>>)
    \o (IF Falsy(dict_get(session_state, "device_sku", Null))
        THEN <<"device model or SKU">> ELSE <<>>)

missing_fields(session_state) ==
    (IF Falsy(dict_get(session_state, "customer_name", Null))
     THEN <<"customer_name">> ELSE <<>>)
    \o (IF Falsy(dict_get(session_state, "phone", Null))
        THEN <<"phone">> ELSE <<>>)
    \o (IF Falsy(dict_get(session_state, "device_sku", Null))
        THEN <<"device model or SKU">> ELSE <<>>)

\* The id looked up with the session's ticket_id preferred to the text's.
status_ticket_id_session_first(extracted, session_state) ==
    IF ~Falsy(dict_get(session_state, "ticket_id", Null))
    THEN dict_get(session_state, "ticket_id", Null)
    ELSE extracted

\* _extract_ticket_id(user_message) or session_state.get("ticket_id")
status_ticket_id(extracted, session_state) ==
    IF ~Falsy(extracted) THEN extracted
    ELSE dict_get(session_state, "ticket_id", Null)

\* The returned dict without its intent.
Out_without_intent(reply, tool, result, intent) ==
    [reply |-> reply, tool |-> tool, result |-> result]

Out(reply, tool, result, intent) ==
    [reply |-> reply, tool |-> tool, result |-> result, intent |-> intent]

\* A local_route call that called no store operation.
Routed(out, f) == [out |-> out, file |-> f, call |-> NoCall]

\* local_route(user_message, session_state) with the ticket file f, the
\* catalog file cf, uuid.uuid4().hex = hex and the file operations of
\* create_ticket going as io says: the value returned, the
\* ticket file left behind, and the ticket-store call made.
local_route(f, cf, user_message, session_state, hex, io) ==
    LET intent == IntentOf[user_message]
    IN  IF intent = "inventory_query"
        THEN LET result == LookupOf[cf][user_message]
                 count == IF "count" \in DOMAIN result THEN result.count ELSE 0
                 reply == IF count # 0
                          THEN "I found " \o int_str(count) \o " matching items."
                          ELSE "No matching items found."
             IN  [out |-> Out(reply, "inventory_lookup", result, intent),
                  file |-> f,
                  call |-> [op |-> "inventory_lookup", arg |-> user_message,
                            result |-> result]]
        ELSE IF intent = "status_query"
        THEN LET extracted == TicketIdOf[user_message]
                 ticket_id == status_ticket_id(extracted, session_state)
                 result == get_ticket_status(f, ticket_id)
                 call == [op |-> "get_ticket_status", arg |-> ticket_id,
                          result |-> result]
             IN  IF Falsy(ticket_id)
                 THEN Routed(Out("Please provide your ticket ID (e.g. TICKET-1234).",
                                 Null, NoneDict, intent), f)
                 ELSE IF result.status = "success"
                 THEN [out |-> Out("Ticket " \o result.ticket.ticket_id
                                       \o ": status = " \o result.ticket.status
                                       \o ".",
                                   "get_ticket_status", result, intent),
                       file |-> f, call |-> call]
                 ELSE [out |-> Out(result.message, "get_ticket_status", result,
                                   intent),
                       file |-> f, call |-> call]
        ELSE IF intent = "repair_intake"
        THEN LET name == dict_get(session_state, "customer_name", Null)
                 phone == dict_get(session_state, "phone", Null)
                 device == dict_get(session_state, "device_sku", Null)
                 issue == user_message
                 missing == missing_fields(session_state)
                 r == create_ticket(f, name, phone, device, issue, "normal", hex, io)
                 result == r.result
                 reply == "Ticket created"
                          \o (IF "ticket" \in DOMAIN result
                              THEN " (ID: " \o result.ticket.ticket_id \o ")"
                              ELSE "")
                          \o ". We'll notify you with updates."
             IN  IF missing # <<>>
                 THEN Routed(Out("I need the following to create a ticket: "
                                     \o str_join(", ", missing) \o ".",
                                 Null, NoneDict, intent), f)
                 ELSE [out |-> Out(reply, "create_ticket", result, intent),
                       file |-> r.file,
                       call |-> [op |-> "create_ticket", arg |-> name,
                                 result |-> result]]
        ELSE IF intent = "troubleshoot"
        THEN Routed(Out("I can help troubleshoot - please describe the exact symptoms, any error messages, and device model.",
                        "troubleshooting", NoneDict, intent), f)
        ELSE Routed(Out("Sorry, I didn't understand. Do you want to create a repair ticket, check product availability, or check ticket status?",
                        Null, NoneDict, intent), f)

\* The value of uuid.uuid4().hex in the calls local_route makes.
RouteHexes == {"3fa85f6457174562b3fc2c963f66afa6"}

LocalRoute ==
    \E m \in Messages, ss \in Sessions, hex \in RouteHexes,
       io \in {"ok", "write_fails"} :
        \E r \in {local_route(ticketsFile, lookupFile, m, ss, hex, io)} :
            /\ r.file # ticketsFile => Len(_read_tickets(ticketsFile)) < MaxTickets
            /\ rtCall' = [op |-> "local_route", message |-> m, session |-> ss,
                          out |-> r.out, call |-> r.call]
            /\ ticketsFile' = r.file
            /\ tkCall' = IF r.call = NoCall \/ r.call.op = "inventory_lookup"
                          THEN tkCall ELSE r.call
            /\ created' = IF r.call # NoCall /\ r.call.op = "create_ticket"
                             /\ r.call.result.status = "success"
                          THEN created \cup {r.call.result.ticket}
                          ELSE created
            /\ UNCHANGED <<invVars, lookupFile, stepVars>>

InitRouter ==
    /\ lookupFile = [kind |-> "absent", data |-> <<>>]
    /\ rtCall = NoCall

(***************************************************************************)
(* Threads, locks and the steps of a write                                 *)
(*                                                                         *)
(* The calls above are taken one at a time.  Here a call is a sequence of  *)
(* steps of a thread, so that calls of several threads, in one process or  *)
(* in two, interleave, a write can fail or the process can crash between   *)
(* two steps, and another reader can read a store file at any moment.      *)
(* ticketsFile and invFile are the two target files; tmp holds the files   *)
(* mkstemp creates.  A file being written holds PartialFile until it is    *)
(* closed.  os.replace and os.remove are single steps of the file system.  *)
(***************************************************************************)
Workers == {"w1", "w2"}

Procs == {"p1", "p2"}

TicketsPath == "tickets.json"

InventoryPath == "inventory.json"

TmpPath == [w \in Workers |-> ".tmp_" \o w]

NoFile == [kind |-> "absent"]

PartialFile == [kind |-> "partial"]

\* The content of the file at each path.
Files ==
    (TicketsPath :> ticketsFile) @@ (InventoryPath :> invFile)
    @@ [p \in {TmpPath[w] : w \in Workers} |->
           tmp[CHOOSE w \in Workers : TmpPath[w] = p]]

SetFiles(f) ==
    /\ ticketsFile' = f[TicketsPath]
    /\ invFile' = f[InventoryPath]
    /\ tmp' = [w \in Workers |-> f[TmpPath[w]]]

\* A write that creates no temporary file: it writes to the target itself.
mkstemp_in_place(w, target) == target

\* tempfile.mkstemp(dir=dirpath, prefix=...): a fresh path next to target.
mkstemp(w, target) == TmpPath[w]

\* A replacement done by copying: dst is open for writing, src stays.
os_replace_by_copy(f, src, dst) == [f EXCEPT ![dst] = PartialFile]

\* os.replace(src, dst): dst becomes the file src was, in one step.
os_replace(f, src, dst) ==
    IF src = dst THEN f ELSE [f EXCEPT ![dst] = f[src], ![src] = NoFile]

\* An exception handler that leaves the temporary file where it is.
os_remove_skipped(f, path) == f

\* os.remove(path)
os_remove(f, path) == [f EXCEPT ![path] = NoFile]

Idle ==
    [pc |-> "idle", frames |-> <<>>, call |-> NoCall, ticket |-> NoneDict,
     path |-> Null, tmp_path |-> Null, payload |-> NoneDict,
     before |-> NoneDict, entry |-> NoneDict, exc |-> "none"]

\* The function a thread is in: the last of the calls it has entered.
Frame(w) == th[w].frames[Len(th[w].frames)]

\* create_ticket takes the module's _LOCK, the InventoryAgent methods
\* self._lock; both are objects of the thread's process.
lock_of(w, frame) ==
    <<procOf[w], IF frame = "create_ticket" THEN "_LOCK" ELSE "self._lock">>

LockKeys == Procs \X {"_LOCK", "self._lock"}

\* A lock that excludes nobody.
can_acquire_no_exclusion(l, w) == TRUE

\* A plain Lock: its owner cannot take it again.
can_acquire_not_reentrant(l, w) == l.count = 0

\* threading.RLock: free, or held by the thread itself.
can_acquire(l, w) == l.count = 0 \/ l.owner = w

Running(w) == procOf[w] \notin down

\* "with lock:" is entered.
Acquire(w) ==
    /\ Running(w)
    /\ th[w].pc = "acquire"
    /\ can_acquire(lock[lock_of(w, Frame(w))], w)
    /\ lock' = [lock EXCEPT ![lock_of(w, Frame(w))] =
                   [owner |-> w, count |-> @.count + 1]]
    /\ th' = [th EXCEPT ![w].pc =
                 IF Frame(w) = "create_ticket" THEN "read"
                 ELSE IF Frame(w) = "save" THEN "mkstemp"
                 ELSE "mutate",
                        \* the collection as the method finds it
                        ![w].entry =
                 IF Frame(w) \in {"create_ticket", "save"} THEN @
                 ELSE [items |-> items, heap |-> heap]]
    /\ UNCHANGED <<ticketVars, invVars, routeVars, tmp, procOf, down, seen>>

\* tickets = _read_tickets(); tickets.append(ticket)
ReadAppend(w) ==
    /\ Running(w)
    /\ th[w].pc = "read"
    /\ th' = [th EXCEPT ![w].pc = "mkstemp",
                        ![w].payload = _atomic_write_tickets(
                            Append(_read_tickets(ticketsFile), th[w].ticket))]
    /\ UNCHANGED <<ticketVars, invVars, routeVars, tmp, lock, procOf, down, seen>>

\* fd, tmp_path = tempfile.mkstemp(...); os.fdopen(fd, "w")
MkTemp(w) ==
    /\ Running(w)
    /\ th[w].pc = "mkstemp"
    /\ LET target == IF Frame(w) = "save" THEN InventoryPath ELSE TicketsPath
           tmp_path == mkstemp(w, target)
       IN  /\ SetFiles([Files EXCEPT ![tmp_path] = PartialFile])
           /\ th' = [th EXCEPT ![w].pc = "dump", ![w].path = target,
                               ![w].tmp_path = tmp_path,
                               ![w].before = Files[target]]
    /\ UNCHANGED <<created, tkCall, items, heap, invCall, got, routeVars,
                   lock, procOf, down, seen, autosave>>

\* json.dump(...): the text goes to the open file piece by piece.
Dump(w) ==
    /\ Running(w)
    /\ th[w].pc = "dump"
    /\ th' = [th EXCEPT ![w].pc = "close",
                        ![w].payload = IF Frame(w) = "save"
                                       THEN save(items, heap)
                                       ELSE th[w].payload]
    /\ UNCHANGED <<ticketVars, invVars, routeVars, tmp, lock, procOf, down, seen>>

\* The file is flushed and closed: it holds the whole text.
Close(w) ==
    /\ Running(w)
    /\ th[w].pc = "close"
    /\ SetFiles([Files EXCEPT ![th[w].tmp_path] = th[w].payload])
    /\ th' = [th EXCEPT ![w].pc = "replace"]
    /\ UNCHANGED <<created, tkCall, items, heap, invCall, got, routeVars,
                   lock, procOf, down, seen, autosave>>

\* json.dump, flush or close raises.
WriteFails(w) ==
    /\ Running(w)
    /\ th[w].pc \in {"dump", "close"}
    /\ th' = [th EXCEPT ![w].pc = "cleanup"]
    /\ UNCHANGED <<ticketVars, invVars, routeVars, tmp, lock, procOf, down, seen>>

\* os.replace(tmp_path, path)
Replace(w) ==
    /\ Running(w)
    /\ th[w].pc = "replace"
    /\ SetFiles(os_replace(Files, th[w].tmp_path, th[w].path))
    /\ th' = [th EXCEPT ![w].pc = "release"]
    /\ UNCHANGED <<created, tkCall, items, heap, invCall, got, routeVars,
                   lock, procOf, down, seen, autosave>>

\* os.replace raises.
ReplaceFails(w) ==
    /\ Running(w)
    /\ th[w].pc = "replace"
    /\ th' = [th EXCEPT ![w].pc = "cleanup"]
    /\ UNCHANGED <<ticketVars, invVars, routeVars, tmp, lock, procOf, down, seen>>

\* except Exception: os.remove(tmp_path); raise
Cleanup(w) ==
    /\ Running(w)
    /\ th[w].pc = "cleanup"
    /\ SetFiles(os_remove(Files, th[w].tmp_path))
    /\ th' = [th EXCEPT ![w].pc = "release", ![w].exc = "OSError"]
    /\ UNCHANGED <<created, tkCall, items, heap, invCall, got, routeVars,
                   lock, procOf, down, seen, autosave>>

\* What create_ticket hands to its caller: it catches the exception and
\* returns an error result.
Outcome(w) ==
    IF th[w].exc = "none"
    THEN [status |-> "success", ticket |-> th[w].ticket]
    ELSE [status |-> "error",
          message |-> "Failed to write ticket: " \o th[w].exc]

\* The call of thread w is over: what its caller gets.  An InventoryAgent
\* method returns, or lets the exception through.
Returned(w) ==
    IF th[w].call.op = "create_ticket"
    THEN /\ tkCall' = [op |-> "create_ticket", arg |-> th[w].call.arg,
                       result |-> Outcome(w)]
         /\ created' = IF th[w].exc = "none"
                       THEN created \cup {th[w].ticket} ELSE created
         /\ UNCHANGED invCall
    ELSE /\ invCall' = [op |-> th[w].call.op, serial |-> th[w].call.serial,
                        user |-> th[w].call.user, raised |-> th[w].exc]
         /\ UNCHANGED <<created, tkCall>>

\* "with lock:" is left, by return or by the exception; when it was the
\* outermost function the call is over.
Release(w) ==
    /\ Running(w)
    /\ th[w].pc = "release"
    /\ lock' = [lock EXCEPT ![lock_of(w, Frame(w))] =
                   [owner |-> IF @.count = 1 THEN Null ELSE @.owner,
                    count |-> @.count - 1]]
    /\ IF Len(th[w].frames) > 1
       THEN /\ th' = [th EXCEPT ![w].frames = SubSeq(@, 1, Len(@) - 1)]
            /\ UNCHANGED <<created, tkCall, invCall, autosave>>
       ELSE /\ th' = [th EXCEPT ![w] = Idle]
            /\ Returned(w)
    /\ UNCHANGED <<ticketsFile, items, heap, invFile, got, routeVars, tmp,
                   procOf, down, seen, autosave>>

\* The process dies in the middle of a call; its files stay as they are.
Crash(p) ==
    /\ p \notin down
    /\ \E w \in Workers : procOf[w] = p /\ th[w].pc # "idle"
    /\ down' = down \cup {p}
    /\ UNCHANGED <<ticketVars, invVars, routeVars, tmp, th, lock, procOf, seen>>

\* The customer names the threads pass to create_ticket.
ThreadNames == {"Sita", ""}

\* The calls of InventoryAgent methods the threads make.
InvCalls ==
    { [op |-> "add_item", serial |-> "sn1", user |-> Null],
      [op |-> "add_item", serial |-> " SN1 ", user |-> Null],
      [op |-> "add_item", serial |-> "", user |-> Null],
      [op |-> "allocate_device", serial |-> " sn1 ", user |-> "alice"] }

\* The calls in progress that will add a ticket or a history entry.
InFlight(frame) ==
    Cardinality({w \in Workers : th[w].pc # "idle" /\ th[w].frames[1] = frame})

\* create_ticket is called: the code before "with _LOCK".
StartCreate(w) ==
    /\ Running(w)
    /\ th[w].pc = "idle"
    /\ Len(_read_tickets(ticketsFile)) + InFlight("create_ticket") < MaxTickets
    /\ \E cn \in ThreadNames, hex \in UuidHexes :
          IF missing_required(cn, "A123", "broken screen")
          THEN /\ tkCall' = [op |-> "create_ticket", arg |-> cn,
                             result |-> create_ticket(ticketsFile, cn,
                                 "+977 1234567", "A123", "broken screen",
                                 "normal", hex, "ok").result]
               /\ UNCHANGED th
          ELSE /\ th' = [th EXCEPT ![w] =
                            [Idle EXCEPT
                                !.pc = "acquire",
                                !.frames = <<"create_ticket">>,
                                !.call = [op |-> "create_ticket", arg |-> cn],
                                !.ticket = build_ticket(cn, "+977 1234567",
                                    "A123", "broken screen", "normal", hex)]]
               /\ UNCHANGED tkCall
    /\ UNCHANGED <<ticketsFile, created, invVars, routeVars, tmp, lock, procOf,
                   down, seen>>

\* InventoryAgent.save() is called by a thread itself.
StartSave(w) ==
    /\ Running(w)
    /\ th[w].pc = "idle"
    /\ th' = [th EXCEPT ![w] = [Idle EXCEPT !.pc = "acquire",
                                            !.frames = <<"save">>,
                                            !.call = [op |-> "save",
                                                      serial |-> Null,
                                                      user |-> Null]]]
    /\ UNCHANGED <<ticketVars, invVars, routeVars, tmp, lock, procOf, down, seen>>

\* A mutating InventoryAgent method is called: the code before
\* "with self._lock".
StartInvOp(w) ==
    /\ Running(w)
    /\ th[w].pc = "idle"
    /\ \E c \in InvCalls :
          /\ c.op # "add_item"
                => HistTotal + InFlight("allocate_device") < MaxHist
          /\ IF c.op = "add_item" /\ Falsy(c.serial)
             THEN /\ invCall' = [op |-> c.op, serial |-> c.serial,
                                 user |-> c.user, raised |-> "ValueError"]
                  /\ UNCHANGED th
             ELSE /\ th' = [th EXCEPT ![w] = [Idle EXCEPT !.pc = "acquire",
                                                          !.frames = <<c.op>>,
                                                          !.call = c]]
                  /\ UNCHANGED invCall
    /\ UNCHANGED <<ticketVars, items, heap, invFile, got, routeVars, tmp, lock,
                   procOf, down, seen, autosave>>

\* A method that never saves.
should_save_never == FALSE

\* "if autosave and self.persist_path": the calls pass no autosave argument,
\* so it is self.autosave, and the agent has a persist_path.
should_save == autosave

\* The body of the method under the lock, up to "if autosave and
\* self.persist_path: self.save()".
Mutate(w) ==
    /\ Running(w)
    /\ th[w].pc = "mutate"
    /\ LET c == th[w].call
           r == CASE c.op = "add_item" ->
                         add_item(items, heap, [serial |-> c.serial])
                  [] c.op = "update_item" ->
                         update_item(items, heap, c.serial, c.updates)
                  [] c.op = "remove_item" ->
                         remove_item(items, heap, c.serial)
                  [] c.op = "allocate_device" ->
                         allocate_device(items, heap, c.serial, c.user, Null)
                  [] c.op = "release_device" ->
                         release_device(items, heap, c.serial)
       IN  /\ items' = r.items
           /\ heap' = r.heap
           /\ th' = [th EXCEPT ![w] =
                        IF r.raised # "none"
                        THEN [@ EXCEPT !.pc = "release", !.exc = r.raised]
                        ELSE IF should_save
                        THEN [@ EXCEPT !.pc = "acquire",
                                       !.frames = Append(@, "save")]
                        ELSE [@ EXCEPT !.pc = "release"]]
    /\ UNCHANGED <<ticketVars, invFile, invCall, got, routeVars, tmp, lock,
                   procOf, down, seen, autosave>>

\* The calls of the five mutating methods the threads make on one item.
AgentCalls ==
    { [op |-> "add_item", serial |-> "sn1", user |-> Null],
      [op |-> "update_item", serial |-> " sn1 ", user |-> Null,
       updates |-> [owner |-> "bob"]],
      [op |-> "remove_item", serial |-> "SN1", user |-> Null],
      [op |-> "allocate_device", serial |-> " sn1 ", user |-> "alice"],
      [op |-> "release_device", serial |-> "sn1", user |-> Null] }

\* The history entries the item may hold while the threads interleave.
MaxAgentHist == MaxHist - 1

\* One of the five mutating methods is called: the code before
\* "with self._lock".
StartAgentCall(w) ==
    /\ Running(w)
    /\ th[w].pc = "idle"
    /\ \E c \in AgentCalls :
          /\ c.op \in {"allocate_device", "release_device"}
                => HistTotal + InFlight("allocate_device")
                      + InFlight("release_device") < MaxAgentHist
          /\ th' = [th EXCEPT ![w] = [Idle EXCEPT !.pc = "acquire",
                                                   !.frames = <<c.op>>,
                                                   !.call = c]]
    /\ UNCHANGED <<ticketVars, invVars, routeVars, tmp, lock, procOf, down, seen>>

\* The reference of the list under key of the item nk, as _load leaves it.
LoadedRef(v, nk, key) ==
    IF key \in DOMAIN v /\ v[key].present THEN <<nk, key>> ELSE NoRef

\* InventoryAgent._load: self._items and its lists after the file f is
\* read.  Only a JSON object (serial -> item) is accepted.
_load(f) ==
    IF f.kind # "dict" \/ \E k \in DOMAIN f.data : ~is_dict(f.data[k])
    THEN [items |-> <<>>, heap |-> [r \in Refs |-> <<>>]]
    ELSE LET keys == DOMAIN f.data
             From(nk) == CHOOSE k \in keys : _normalize_serial(k) = nk
             normalized == [nk \in {_normalize_serial(k) : k \in keys} |->
                               f.data[From(nk)]]
         IN  [items |-> [nk \in DOMAIN normalized |->
                            [serial |-> nk,
                             status |-> dict_get(normalized[nk], "status", Null),
                             owner |-> dict_get(normalized[nk], "owner", Null),
                             tags |-> LoadedRef(normalized[nk], nk, "tags"),
                             allocations |->
                                 LoadedRef(normalized[nk], nk, "allocations"),
                             releases |->
                                 LoadedRef(normalized[nk], nk, "releases")]],
              heap |-> [r \in Refs |->
                           IF r[1] \in DOMAIN normalized
                              /\ LoadedRef(normalized[r[1]], r[1], r[2]) # NoRef
                           THEN normalized[r[1]][r[2]].value
                           ELSE <<>>]]

\* Another reader (a new process, or one that runs beside the writers)
\* reads a store file.
Observe ==
    /\ \E path \in {TicketsPath, InventoryPath} :
          seen' = [op |-> "read", path |-> path,
                   value |-> IF path = TicketsPath
                             THEN _read_tickets(ticketsFile)
                             ELSE save(_load(invFile).items,
                                       _load(invFile).heap).data]
    /\ UNCHANGED <<ticketVars, invVars, routeVars, tmp, th, lock, procOf, down>>

\* Items an inventory file may hold, as json.dump writes them.
SeedItemList ==
    << [serial |-> "SN1", status |-> "available", owner |-> Null,
       tags |-> [present |-> TRUE, value |-> <<"spare">>],
       allocations |-> [present |-> FALSE],
       releases |-> [present |-> FALSE]],
      [serial |-> "SN2", status |-> "allocated", owner |-> "alice",
       tags |-> [present |-> TRUE, value |-> <<>>],
       allocations |-> [present |-> TRUE,
                        value |-> <<[user |-> "alice", reason |-> Null]>>],
       releases |-> [present |-> FALSE]] >>

SeedItems == {SeedItemList[i] : i \in 1..Len(SeedItemList)}

\* The spelling of an item's serial as a key of the mapping.
KeyOf == ("SN1" :> " sn1 ") @@ ("SN2" :> "SN2")

\* The items of S in the order of SeedItemList.
SeqOf(S) == LET In(x) == x \in S IN SelectSeq(SeedItemList, In)

\* The two encodings of a set of items: a JSON array of the items, and a
\* JSON object from serial to the item without its serial.
AsArray(S) == [kind |-> "list", data |-> SeqOf(S)]

AsMapping(S) ==
    [kind |-> "dict",
     data |-> [k \in {KeyOf[x.serial] : x \in S} |->
                  LET x == CHOOSE y \in S : KeyOf[y.serial] = k
                  IN  [f \in DOMAIN x \ {"serial"} |-> x[f]]]]

InventoryEncodings ==
    {AsArray(S) : S \in SUBSET SeedItems} \cup {AsMapping(S) : S \in SUBSET SeedItems}

\* InventoryAgent(persist_path): __init__ calls _load.
ConstructAgent ==
    /\ items' = _load(invFile).items
    /\ heap' = _load(invFile).heap
    /\ got' = NoCopy
    /\ invCall' = [op |-> "__init__", serial |-> Null, user |-> Null,
                   raised |-> "none"]
    /\ UNCHANGED <<invFile, ticketVars, routeVars, stepVars, autosave>>

\* inventory_lookup reads data/inventory.json.
ReadInventory ==
    /\ seen' = [op |-> "_read_inventory", path |-> "data/inventory.json",
                value |-> _read_inventory(lookupFile)]
    /\ UNCHANGED <<ticketVars, invVars, routeVars, tmp, th, lock, procOf, down>>

\* Ticket files whose records are not all ticket dicts.
OddTicketFiles ==
    { [kind |-> "list", data |-> << JsonScalar >>],
      [kind |-> "list", data |-> << SeedTicket("TICKET-001", "received"),
                                    JsonScalar >>],
      [kind |-> "list", data |-> << [name |-> "Ram"] >>],
      [kind |-> "wrapped", data |-> << JsonScalar >>] }

\* Catalog files that are unreadable or whose records are not all dicts.
OddCatalogs ==
    { [kind |-> "invalid", data |-> <<>>],
      [kind |-> "list", data |-> << JsonScalar >>],
      [kind |-> "list",
       data |-> << CatalogItem("XPS13-9310", "Dell XPS 13 9310", "Dell",
                               "laptop", Null),
                   JsonScalar >>] }

\* Inventory files that are absent, unreadable, or hold a value that is no
\* dict under a serial.
OddInventories ==
    { [kind |-> "absent", data |-> <<>>],
      [kind |-> "invalid", data |-> <<>>],
      [kind |-> "dict", data |-> ("SN1" :> JsonScalar)] }

LookupQueries == {"xps", "Printer  ", " ", Null}

\* list_tickets()
ListTickets ==
    /\ seen' = [op |-> "list_tickets", path |-> TicketsPath,
                value |-> _read_tickets(ticketsFile)]
    /\ UNCHANGED <<ticketVars, invVars, routeVars, tmp, th, lock, procOf, down>>

\* inventory_lookup(query)
InventoryLookup ==
    /\ \E q \in LookupQueries :
          seen' = [op |-> "inventory_lookup", path |-> "data/inventory.json",
                   value |-> inventory_lookup(lookupFile, q)]
    /\ UNCHANGED <<ticketVars, invVars, routeVars, tmp, th, lock, procOf, down>>

InitSteps ==
    /\ tmp = [w \in Workers |-> NoFile]
    /\ th = [w \in Workers |-> Idle]
    /\ lock = [k \in LockKeys |-> [owner |-> Null, count |-> 0]]
    /\ down = {}
    /\ seen = NoCall

(***************************************************************************)
(* Specifications                                                          *)
(***************************************************************************)
InitTickets ==
    /\ ticketsFile \in SeedFiles
    /\ created = {}
    /\ tkCall = NoCall
    /\ InitInventory
    /\ InitRouter
    /\ InitSteps
    /\ procOf = [w \in Workers |-> "p1"]

NextTickets == CreateTicket \/ GetTicketStatus

SpecTickets == InitTickets /\ [][NextTickets]_vars

InitInv ==
    /\ InitInventory
    /\ InitRouter
    /\ ticketsFile = AbsentFile
    /\ created = {}
    /\ tkCall = NoCall
    /\ InitSteps
    /\ procOf = [w \in Workers |-> "p1"]

NextInv ==
    AddItem \/ UpdateItem \/ RemoveItem \/ AllocateDevice \/ ReleaseDevice

SpecInv == InitInv /\ [][NextInv]_vars

InitRoute ==
    /\ ticketsFile = [kind |-> "list", data |-> SeedList]
    /\ created = {}
    /\ tkCall = NoCall
    /\ InitInventory
    /\ lookupFile \in SeedCatalogs
    /\ rtCall = NoCall
    /\ InitSteps
    /\ procOf = [w \in Workers |-> "p1"]

NextRoute == LocalRoute

SpecRoute == InitRoute /\ [][NextRoute]_vars

NextInvCopy ==
    \/ AddItem \/ RemoveItem \/ AllocateDevice
    \/ GetItem \/ CallerSetsKey \/ CallerAppends

SpecInvCopy == InitInv /\ [][NextInvCopy]_vars

\* One process, two threads, and another reader.
InitThreads ==
    /\ ticketsFile = [kind |-> "list",
                      data |-> <<SeedTicket("TICKET-001", "in_progress")>>]
    /\ created = {}
    /\ tkCall = NoCall
    /\ InitInventory
    /\ InitRouter
    /\ InitSteps
    /\ procOf = [w \in Workers |-> "p1"]

WriteStep(w) ==
    \/ MkTemp(w) \/ Dump(w) \/ Close(w) \/ Replace(w)
    \/ WriteFails(w) \/ ReplaceFails(w) \/ Cleanup(w)

NextThreads ==
    \/ \E w \in Workers :
          \/ StartCreate(w) \/ StartSave(w)
          \/ Acquire(w) \/ ReadAppend(w)
          \/ WriteStep(w) \/ Release(w)
    \/ \E p \in Procs : Crash(p)
    \/ Observe

SpecThreads == InitThreads /\ [][NextThreads]_vars

\* Two processes with one thread each, and another reader.
InitProcs ==
    /\ ticketsFile = [kind |-> "list",
                      data |-> <<SeedTicket("TICKET-001", "in_progress")>>]
    /\ created = {}
    /\ tkCall = NoCall
    /\ InitInventory
    /\ InitRouter
    /\ InitSteps
    /\ procOf = ("w1" :> "p1") @@ ("w2" :> "p2")

NextProcs ==
    \/ \E w \in Workers :
          \/ StartCreate(w) \/ Acquire(w) \/ ReadAppend(w)
          \/ WriteStep(w) \/ Release(w)
    \/ \E p \in Procs : Crash(p)

SpecProcs == InitProcs /\ [][NextProcs]_vars

\* The threads of one process call the mutating InventoryAgent methods.  A
\* thread that can take a step eventually takes one, and a thread waiting
\* for the lock gets it if the lock is free again and again.
NextLock ==
    \E w \in Workers :
        \/ StartInvOp(w) \/ Acquire(w) \/ Mutate(w)
        \/ WriteStep(w) \/ Release(w)

FairSpecLock ==
    /\ InitThreads
    /\ [][NextLock]_vars
    /\ \A w \in Workers :
          /\ SF_vars(Acquire(w))
          /\ WF_vars(Mutate(w) \/ WriteStep(w) \/ Release(w))

\* The inventory files hold a set of items in one of the two encodings.
InitLoad ==
    /\ ticketsFile = AbsentFile
    /\ created = {}
    /\ tkCall = NoCall
    /\ items = <<>>
    /\ heap = [r \in Refs |-> <<>>]
    /\ invFile \in InventoryEncodings
    /\ invCall = NoCall
    /\ got = NoCopy
    /\ autosave = TRUE
    /\ lookupFile \in InventoryEncodings
    /\ rtCall = NoCall
    /\ InitSteps
    /\ procOf = [w \in Workers |-> "p1"]

NextLoad == ConstructAgent \/ ReadInventory \/ UpdateItem

SpecLoad == InitLoad /\ [][NextLoad]_vars

\* create_ticket called at various readings of the clock.
NextClock == CreateTicketAt \/ GetTicketStatus

InitClock ==
    /\ InitTickets
    /\ ticketsFile = [kind |-> "list", data |-> SeedList]

SpecClock == InitClock /\ [][NextClock]_vars

\* The threads of one process call the mutating InventoryAgent methods and
\* save() on an agent with autosave on or off; every write succeeds.
InitAutosave ==
    /\ ticketsFile = AbsentFile
    /\ created = {}
    /\ tkCall = NoCall
    /\ items = <<>>
    /\ heap = [r \in Refs |-> <<>>]
    /\ invFile = [kind |-> "absent"]
    /\ invCall = NoCall
    /\ got = NoCopy
    /\ autosave \in BOOLEAN
    /\ InitRouter
    /\ InitSteps
    /\ procOf = [w \in Workers |-> "p1"]

NextAutosave ==
    \E w \in Workers :
        \/ StartAgentCall(w) \/ StartSave(w) \/ Acquire(w) \/ Mutate(w)
        \/ MkTemp(w) \/ Dump(w) \/ Close(w) \/ Replace(w) \/ Release(w)

SpecAutosave == InitAutosave /\ [][NextAutosave]_vars

\* The read operations of the three stores, on files of every shape.
InitRead ==
    /\ ticketsFile \in SeedFiles \cup OddTicketFiles
    /\ created = {}
    /\ tkCall = NoCall
    /\ items = <<>>
    /\ heap = [r \in Refs |-> <<>>]
    /\ invFile \in OddInventories \cup {AsMapping(SeedItems)}
    /\ invCall = NoCall
    /\ got = NoCopy
    /\ autosave = TRUE
    /\ lookupFile \in SeedCatalogs \cup OddCatalogs
    /\ rtCall = NoCall
    /\ InitSteps
    /\ procOf = [w \in Workers |-> "p1"]

NextRead ==
    \/ GetTicketStatus
    \/ ListTickets
    \/ InventoryLookup
    \/ ReadInventory
    \/ ConstructAgent

SpecRead == InitRead /\ [][NextRead]_vars

(***************************************************************************)
(* Ticket store properties                                                 *)
(***************************************************************************)
StoredTickets == _read_tickets(ticketsFile)

\* C1: a get_ticket_status call on the id of a ticket T that create_ticket
\* returned earlier, with any number of create_ticket calls in between,
\* returns status "success" with exactly T and no partial-match note.
C1_RoundTrip ==
    tkCall.op = "get_ticket_status" =>
        \A T \in created :
            tkCall.arg = T.ticket_id =>
                tkCall.result = [status |-> "success", ticket |-> T]

\* C2: no two tickets of the persisted collection have the same ticket_id.
C2_UniqueIds ==
    \A i, j \in 1..Len(StoredTickets) :
        i # j => StoredTickets[i].ticket_id # StoredTickets[j].ticket_id

\* The matching policy of C9 for the normalized query q, as a predicate on
\* the value r returned: exact match anywhere first, then the first ticket
\* in storage order whose id contains q, then an error.
MatchingPolicy(q, r) ==
    LET ts == StoredTickets
        exact == {i \in 1..Len(ts) : ts[i].ticket_id = q}
        part == {i \in 1..Len(ts) : str_in(q, ts[i].ticket_id)}
    IN  IF exact # {}
        THEN r = [status |-> "success", ticket |-> ts[Min(exact)]]
        ELSE IF part # {}
        THEN r = [status |-> "success", ticket |-> ts[Min(part)],
                  note |-> "partial_match"]
        ELSE r.status = "error" /\ DOMAIN r = {"status", "message"}

\* C9 as stated: every get_ticket_status call on a string applies the
\* matching policy to the trimmed, upper-cased query.
C9_PolicyForEveryQuery ==
    (tkCall.op = "get_ticket_status" /\ tkCall.arg # Null) =>
        MatchingPolicy(str_upper(str_strip(tkCall.arg)), tkCall.result)

\* C9 amended: a get_ticket_status call on a non-empty ticket id applies
\* the matching policy to the trimmed, upper-cased query (exact match
\* anywhere in the collection, else the first containing ticket flagged
\* partial_match, else an error); a null or empty ticket id yields an
\* error whatever the store holds.
C9_PolicyForNonEmptyQuery ==
    tkCall.op = "get_ticket_status" =>
        IF Falsy(tkCall.arg)
        THEN tkCall.result.status = "error"
        ELSE MatchingPolicy(str_upper(str_strip(tkCall.arg)), tkCall.result)

\* A call that returned an exact match stored after a ticket whose id
\* merely contains the query.
C9_ExactAfterContaining ==
    /\ tkCall.op = "get_ticket_status"
    /\ ~Falsy(tkCall.arg)
    /\ tkCall.result.status = "success"
    /\ "note" \notin DOMAIN tkCall.result
    /\ \E i, j \in 1..Len(StoredTickets) :
          /\ i < j
          /\ StoredTickets[j].ticket_id = str_upper(str_strip(tkCall.arg))
          /\ StoredTickets[i].ticket_id # StoredTickets[j].ticket_id
          /\ str_in(StoredTickets[j].ticket_id, StoredTickets[i].ticket_id)
          /\ tkCall.result.ticket = StoredTickets[j]

(***************************************************************************)
(* Inventory store properties                                              *)
(***************************************************************************)
\* The content of the list item k holds under `key` (empty when the dict
\* has no such key).
History(its, hp, k, key) ==
    IF its[k][key] = NoRef THEN <<>> ELSE hp[its[k][key]]

Trimmed(serial) == str_upper(str_strip(serial))

\* C3: every stored item with status "allocated" has a non-null owner and
\* every stored item with status "available" has a null owner.
C3_StatusOwnerInvariant ==
    \A k \in DOMAIN items :
        /\ items[k].status = "allocated" => items[k].owner # Null
        /\ items[k].status = "available" => items[k].owner = Null

UniqueSerials ==
    \A k1, k2 \in DOMAIN items :
        k1 # k2 => Trimmed(items[k1].serial) # Trimmed(items[k2].serial)

DuplicateAddRejected ==
    ( /\ invCall'.op = "add_item"
      /\ invCall'.serial # Null
      /\ \E k \in DOMAIN items :
            Trimmed(items[k].serial) = Trimmed(invCall'.serial) )
    => ( /\ invCall'.raised = "KeyError"
         /\ items' = items
         /\ heap' = heap
         /\ invFile' = invFile )

\* C4: add_item with a serial that, trimmed and upper-cased, equals the
\* serial of a stored item raises KeyError and leaves the collection and
\* every field of every record unchanged; the collection never holds two
\* items with the same normalized serial.
C4_DuplicateSerialRejected ==
    []UniqueSerials /\ [][DuplicateAddRejected]_vars

\* A rejected add_item whose serial differs from the stored one in case or
\* surrounding whitespace.
C4_RejectedVariant ==
    /\ invCall.op = "add_item"
    /\ invCall.raised = "KeyError"
    /\ invCall.serial \notin DOMAIN items
    /\ Trimmed(invCall.serial) \in DOMAIN items

\* C5: allocate_device on an item whose status is "allocated" raises
\* RuntimeError, and on an absent serial raises KeyError; either way the
\* collection (the item's owner, status and allocations included) is
\* unchanged.
C5_AllocateRejected ==
    [][ invCall'.op = "allocate_device" =>
          LET k == Trimmed(invCall'.serial)
          IN  /\ k \notin DOMAIN items =>
                    /\ invCall'.raised = "KeyError"
                    /\ items' = items /\ heap' = heap
              /\ (k \in DOMAIN items /\ items[k].status = "allocated") =>
                    /\ invCall'.raised = "RuntimeError"
                    /\ items'[k].owner = items[k].owner
                    /\ items'[k].status = items[k].status
                    /\ History(items', heap', k, "allocations")
                         = History(items, heap, k, "allocations")
                    /\ items' = items /\ heap' = heap ]_vars

\* An allocate_device call by one user rejected because the item is
\* allocated to another.
C5_ConflictReached ==
    /\ invCall.op = "allocate_device"
    /\ invCall.raised = "RuntimeError"
    /\ LET k == Trimmed(invCall.serial)
       IN  /\ items[k].status = "allocated"
           /\ items[k].owner \in Users \ {invCall.user}
           /\ History(items, heap, k, "allocations") # <<>>

\* C6: release_device on a stored item (owner U when called) sets status
\* "available" and owner null and appends exactly one entry, with
\* previous_owner U, to the item's releases, leaving the earlier releases
\* and the allocations as they were; on an absent serial it raises KeyError.
C6_ReleaseAppendsOne ==
    [][ invCall'.op = "release_device" =>
          LET k == Trimmed(invCall'.serial)
          IN  IF k \notin DOMAIN items
              THEN invCall'.raised = "KeyError" /\ items' = items
              ELSE /\ invCall'.raised = "none"
                   /\ items'[k].status = "available"
                   /\ items'[k].owner = Null
                   /\ History(items', heap', k, "releases")
                        = Append(History(items, heap, k, "releases"),
                                 [previous_owner |-> items[k].owner])
                   /\ History(items', heap', k, "allocations")
                        = History(items, heap, k, "allocations") ]_vars

\* A release of a device that allocate_device had given to a user, with
\* an earlier release already in the history.
C6_ReleasedAfterAllocate ==
    /\ invCall.op = "release_device"
    /\ invCall.raised = "none"
    /\ LET k == Trimmed(invCall.serial)
           rel == History(items, heap, k, "releases")
           alloc == History(items, heap, k, "allocations")
       IN  /\ Len(rel) >= 2
           /\ alloc # <<>>
           /\ rel[Len(rel)].previous_owner = alloc[Len(alloc)].user
           /\ items[k].status = "available"
           /\ items[k].owner = Null

\* What the store holds: every item with the content of its lists.
StoreValue == save(items, heap).data

\* C7: a mutation the caller applies to a dict get_item returned, nested
\* tags, allocations and releases lists included, does not change what the
\* store holds (nor, so, what a later get_item returns).
C7_CopyIsIndependent ==
    [][ invCall'.op \in {"caller_sets_key", "caller_appends"} =>
          StoreValue' = StoreValue ]_vars


(***************************************************************************)
(* Properties of the router                                                *)
(***************************************************************************)
IntentOrder == <<"repair_intake", "inventory_query", "status_query", "troubleshoot">>

KeywordsOf ==
    <<RepairKeywords, InventoryKeywords, StatusKeywords, TroubleshootKeywords>>

\* The first intent of IntentOrder with a keyword occurring in t.
FirstIntent(t) ==
    LET hits == {i \in 1..Len(IntentOrder) : AnyIn(KeywordsOf[i], t)}
    IN  IF hits = {} THEN "fallback" ELSE IntentOrder[Min(hits)]

\* C8: the intent local_route reports, which is what _detect_intent returned,
\* is the first intent in the order repair_intake, inventory_query,
\* status_query, troubleshoot that has a keyword occurring in the lower-cased
\* message, and fallback when no intent has one.
C8_FirstMatchWins ==
    rtCall.op = "local_route"
        => rtCall.out.intent = FirstIntent(str_lower(rtCall.message))

\* A message with both a repair keyword and an inventory keyword was routed
\* and classified repair_intake.
C8_RepairBeatsInventory ==
    /\ rtCall.op = "local_route"
    /\ AnyIn(RepairKeywords, str_lower(rtCall.message))
    /\ AnyIn(InventoryKeywords, str_lower(rtCall.message))
    /\ rtCall.out.intent = "repair_intake"

\* The session keys a ticket needs and the name the reply gives each.
FieldLabel ==
    [customer_name |-> "customer_name", phone |-> "phone",
     device_sku |-> "device model or SKU"]

Lacking(session) ==
    {k \in DOMAIN FieldLabel : Falsy(dict_get(session, k, Null))}

\* C10: a local_route call whose message classifies as repair_intake and
\* whose session lacks (or holds empty) any of customer_name, phone,
\* device_sku returns tool None, result None and intent repair_intake, names
\* in its reply exactly the lacking fields, makes no ticket-store call and
\* leaves the ticket file as it was.
C10_MissingInfoNoStoreCall ==
    [][(/\ rtCall'.op = "local_route"
        /\ IntentOf[rtCall'.message] = "repair_intake"
        /\ Lacking(rtCall'.session) # {})
       => /\ rtCall'.out.tool = Null
          /\ rtCall'.out.result = NoneDict
          /\ rtCall'.out.intent = "repair_intake"
          /\ \A k \in DOMAIN FieldLabel :
                str_in(FieldLabel[k], rtCall'.out.reply)
                    <=> k \in Lacking(rtCall'.session)
          /\ ticketsFile' = ticketsFile
          /\ tkCall' = tkCall
          /\ created' = created]_vars

\* "I need a repair" was routed with an empty session and the reply names
\* all three fields.
C10_EmptySessionAsked ==
    /\ rtCall.op = "local_route"
    /\ rtCall.message = "I need a repair"
    /\ DOMAIN rtCall.session = {}
    /\ rtCall.out.tool = Null
    /\ \A k \in DOMAIN FieldLabel : str_in(FieldLabel[k], rtCall.out.reply)


\* The session of the happy-path scenario.
HappySession ==
    [customer_name |-> "Sita", phone |-> "+977-1234567", device_sku |-> "A123"]

\* C11: local_route("laptop broken", {customer_name: "Sita", phone:
\* "+977-1234567", device_sku: "A123"}) returns intent repair_intake and tool
\* create_ticket, and its result holds a ticket of status "received" that is
\* in the ticket store.
C11_HappyPath ==
    (/\ rtCall.op = "local_route"
     /\ rtCall.message = "laptop broken"
     /\ DOMAIN rtCall.session = DOMAIN HappySession
     /\ \A k \in DOMAIN HappySession : rtCall.session[k] = HappySession[k])
    => /\ rtCall.out.intent = "repair_intake"
       /\ rtCall.out.tool = "create_ticket"
       /\ rtCall.out.result.status = "success"
       /\ rtCall.out.result.ticket.status = "received"
       /\ InSeq(rtCall.out.result.ticket, _read_tickets(ticketsFile))

\* C21: a local_route call whose message classifies as status_query looks up
\* the id extracted from the text when the text holds one, and the session's
\* ticket_id only when it holds none; with neither it asks for the id, with
\* tool None and result None, and calls no store operation; in the other
\* cases it returns tool get_ticket_status and the result of that call,
\* which is the store's answer for that id.
C21_StatusLookup ==
    (rtCall.op = "local_route" /\ rtCall.out.intent = "status_query")
    => LET extracted == TicketIdOf[rtCall.message]
           inSession == dict_get(rtCall.session, "ticket_id", Null)
       IN  /\ extracted # Null
                => rtCall.call # NoCall /\ rtCall.call.arg = extracted
           /\ (extracted = Null /\ ~Falsy(inSession))
                => rtCall.call # NoCall /\ rtCall.call.arg = inSession
           /\ (extracted = Null /\ Falsy(inSession))
                => /\ rtCall.call = NoCall
                   /\ rtCall.out.tool = Null
                   /\ rtCall.out.result = NoneDict
                   /\ str_in("provide your ticket ID", rtCall.out.reply)
           /\ rtCall.call # NoCall
                => /\ rtCall.call.op = "get_ticket_status"
                   /\ rtCall.out.tool = "get_ticket_status"
                   /\ rtCall.out.result = rtCall.call.result
                   /\ rtCall.call.result
                          = get_ticket_status(ticketsFile, rtCall.call.arg)

\* A status query whose text holds an id was routed with a session holding
\* another id, and the ticket of the text's id came back.
C21_TextIdBeatsSession ==
    /\ rtCall.op = "local_route"
    /\ rtCall.out.intent = "status_query"
    /\ TicketIdOf[rtCall.message] = "TICKET-001"
    /\ dict_get(rtCall.session, "ticket_id", Null) = "TICKET-77"
    /\ rtCall.out.tool = "get_ticket_status"
    /\ rtCall.out.result.status = "success"
    /\ rtCall.out.result.ticket.ticket_id = "TICKET-001"

\* The tool names local_route may return.
ToolNames ==
    {"inventory_lookup", "get_ticket_status", "create_ticket", "troubleshooting"}

\* C22: every local_route call returns a mapping with exactly the keys reply,
\* tool, result and intent; intent is what _detect_intent returns for the
\* message; tool is one of the four tool names or None; tool is None exactly
\* when no store operation was called and the intent is not troubleshoot;
\* result is None whenever tool is None or troubleshooting; the troubleshoot
\* intent always gives tool troubleshooting; a tool naming a store operation
\* names the operation that was called and comes with its result.
C22_OutputContract ==
    rtCall.op = "local_route"
    => /\ DOMAIN rtCall.out = {"reply", "tool", "result", "intent"}
       /\ rtCall.out.intent = _detect_intent(rtCall.message)
       /\ rtCall.out.tool \in ToolNames \cup {Null}
       /\ rtCall.out.tool = Null
             <=> (rtCall.call = NoCall /\ rtCall.out.intent # "troubleshoot")
       /\ rtCall.out.tool \in {Null, "troubleshooting"}
             => rtCall.out.result = NoneDict
       /\ rtCall.out.intent = "troubleshoot"
             <=> rtCall.out.tool = "troubleshooting"
       /\ rtCall.call # NoCall
             => /\ rtCall.out.tool = rtCall.call.op
                /\ rtCall.out.result = rtCall.call.result

\* Calls of all five intents have been routed at one ticket file or another:
\* here the troubleshoot one, after a ticket was created by an earlier call.
C22_TroubleshootAfterCreate ==
    /\ rtCall.op = "local_route"
    /\ rtCall.out.tool = "troubleshooting"
    /\ rtCall.out.result = NoneDict
    /\ created # {}

\* C28: a local_route call whose message asks for a status and holds a
\* ticket id in the form TICKET-<three or more letters or digits> is
\* classified status_query and returns tool get_ticket_status, called with
\* that id.
C28_StatusOfTicketInText ==
    (/\ rtCall.op = "local_route"
     /\ str_in("status", str_lower(rtCall.message))
     /\ TicketIdOf[rtCall.message] # Null)
    => /\ rtCall.out.intent = "status_query"
       /\ rtCall.out.tool = "get_ticket_status"
       /\ rtCall.call # NoCall
       /\ rtCall.call.op = "get_ticket_status"
       /\ rtCall.call.arg = TicketIdOf[rtCall.message]


(***************************************************************************)
(* Properties of the write steps and of the threads                        *)
(***************************************************************************)
\* What a reader of the store file at path gets when the file holds f.
ReadOf(path, f) ==
    IF path = TicketsPath THEN _read_tickets(f)
    ELSE save(_load(f).items, _load(f).heap).data

\* Thread w has created its temporary file and its write is not over (or
\* never will be: its process crashed).
InWrite(w) == th[w].pc \in {"dump", "close", "replace", "cleanup"}

\* What the target of w's write held when the write began, and the new
\* content once w has serialized it.
OldAndNew(w) ==
    {th[w].before} \cup (IF th[w].payload = NoneDict THEN {} ELSE {th[w].payload})

TargetWholeDuringWrite ==
    \A w \in Workers :
        InWrite(w) =>
            /\ Files[th[w].path].kind # "partial"
            /\ Files[th[w].path] \in OldAndNew(w)

ReadSeesOldOrNew ==
    \A w \in Workers :
        (seen'.op = "read" /\ InWrite(w) /\ th[w].path = seen'.path)
            => seen'.value \in {ReadOf(th[w].path, f) : f \in OldAndNew(w)}

\* C12: while a write is under way, and after a crash in the middle of one,
\* the target file is never a partly written one: it holds what it held
\* when the write began or the whole new content, and a read of it by
\* another reader returns one of these two collections.
C12_AtomicWrite ==
    []TargetWholeDuringWrite /\ [][Observe => ReadSeesOldOrNew]_vars

\* A process crashed while writing tickets, its partly written temporary
\* file is left behind, and a reader got the collection committed before.
C12_CrashLeavesOldVisible ==
    \E w \in Workers :
        /\ procOf[w] \in down
        /\ th[w].path = TicketsPath
        /\ InWrite(w)
        /\ tmp[w] = PartialFile
        /\ seen.op = "read"
        /\ seen.path = TicketsPath
        /\ seen.value = _read_tickets(th[w].before)
        /\ seen.value # <<>>
        /\ ticketsFile = th[w].before

WriteRaises(w) ==
    (th[w].pc = "cleanup" /\ th'[w].pc = "release")
        => /\ th'[w].exc # "none"
           /\ Files'[th[w].tmp_path] = NoFile
           /\ Files'[th[w].path] = th[w].before

RaiseReachesCaller(w) ==
    (/\ th[w].pc = "release"
     /\ th[w].exc = "OSError"
     /\ th'[w].pc = "idle")
        => IF th[w].call.op = "create_ticket"
           THEN /\ tkCall'.result.status = "error"
                /\ ticketsFile' = th[w].before
           ELSE /\ invCall'.raised = "OSError"
                /\ invFile' = th[w].before

InCreateSection(w) ==
    /\ th[w].pc \in {"read", "mkstemp", "dump", "close", "replace",
                     "cleanup", "release"}
    /\ th[w].frames[1] = "create_ticket"

ReplaceInstallsOwnList ==
    \A w \in Workers :
        (th[w].pc = "replace" /\ th'[w].pc = "release"
         /\ th[w].path = TicketsPath)
            => ticketsFile' = th[w].payload

\* C15: with the two calls in different processes the ticket file is still
\* always a whole JSON array, and each os.replace makes it exactly the list
\* its writer read plus the writer's ticket, whatever the other process has
\* committed since that read: the last writer wins.
C15_LastWriterWins ==
    [](ticketsFile.kind = "list") /\ [][ReplaceInstallsOwnList]_vars

\* Both processes' calls have returned success with different tickets and
\* the file holds the seed ticket and one of the two only.
C15_UpdateLost ==
    /\ \A w \in Workers : th[w].pc = "idle"
    /\ procOf["w1"] # procOf["w2"]
    /\ Cardinality(created) = 2
    /\ tkCall.result.status = "success"
    /\ Len(_read_tickets(ticketsFile)) = 2
    /\ \E t \in created : ~InSeq(t, _read_tickets(ticketsFile))
    /\ InSeq(tkCall.result.ticket, _read_tickets(ticketsFile))


\* The number of "with self._lock" blocks thread w is inside.
HeldBy(w) ==
    IF th[w].pc \in {"idle", "acquire"} THEN Len(th[w].frames) - 1
    ELSE Len(th[w].frames)

LockReleasedAtReturn ==
    \A w \in Workers, k \in LockKeys :
        /\ th[w].pc = "idle" => lock[k].owner # w
        /\ lock[k].owner = w => lock[k].count = HeldBy(w)
        /\ lock[k].count = 0 <=> lock[k].owner = Null

C17_ErrorReplyReportsFailure ==
    (/\ rtCall.op = "local_route"
     /\ rtCall.out.result # NoneDict
     /\ rtCall.out.result.status = "error")
    => /\ ~str_in("Ticket created", rtCall.out.reply)
       /\ ~str_in("I found", rtCall.out.reply)


\* C18: a create_ticket call whose customer_name is empty after trimming
\* returns an error result, and no ticket in the file has an empty
\* customer_name, device or issue.
C18_EmptyFieldsRejected ==
    /\ (tkCall.op = "create_ticket" /\ str_strip(tkCall.arg) = "")
          => tkCall.result.status = "error"
    /\ \A i \in 1..Len(StoredTickets) :
          /\ StoredTickets[i].customer_name # ""
          /\ StoredTickets[i].device # ""
          /\ StoredTickets[i].issue # ""

IsPrefix(s, t) == Len(s) <= Len(t) /\ SubSeq(t, 1, Len(s)) = s

\* C19: every create_ticket call leaves the collection list_tickets returns
\* as it was or with one ticket appended at the end, also when the call's
\* read of the file failed.
C19_AppendOnly ==
    [][/\ IsPrefix(StoredTickets, StoredTickets')
       /\ Len(StoredTickets') <= Len(StoredTickets) + 1]_vars


\* The items a file encodes, each with its serial: the elements of the
\* array, or the values of the mapping with the normalized key as serial.
ItemSet(f) ==
    IF f.kind = "list" THEN {f.data[i] : i \in 1..Len(f.data)}
    ELSE {[serial |-> _normalize_serial(k)] @@ f.data[k] : k \in DOMAIN f.data}

\* C20: each loader yields the items the file encodes, in either encoding:
\* after InventoryAgent.__init__ the agent holds exactly the file's items,
\* and _read_inventory returns exactly the file's items.
C20_LoadersAcceptBothEncodings ==
    /\ invCall.op = "__init__"
          => {save(items, heap).data[k] : k \in DOMAIN items} = ItemSet(invFile)
    /\ seen.op = "_read_inventory"
          => {seen.value[i] : i \in 1..Len(seen.value)} = ItemSet(lookupFile)

(***************************************************************************)
(* Properties of the read operations                                       *)
(***************************************************************************)
\* C23: no read operation raises, whatever the store file holds:
\* get_ticket_status, inventory_lookup and list_tickets return a value, and
\* constructing an InventoryAgent on any file succeeds (with no item when
\* the file is absent, unreadable or of another structure).
C23_ReadsNeverRaise ==
    /\ tkCall # NoCall /\ tkCall.op = "get_ticket_status"
          => "raised" \notin DOMAIN tkCall.result
    /\ seen # NoCall /\ seen.op = "inventory_lookup"
          => "raised" \notin DOMAIN seen.value
    /\ seen # NoCall /\ seen.op = "list_tickets" /\ ticketsFile.kind \in {"absent", "invalid"}
          => seen.value = <<>>
    /\ seen # NoCall /\ seen.op = "_read_inventory" /\ lookupFile.kind \in {"absent", "invalid"}
          => seen.value = <<>>
    /\ invCall # NoCall /\ invCall.op = "__init__"
          => /\ invCall.raised = "none"
             /\ invFile.kind \in {"absent", "invalid"} => items = <<>>

(***************************************************************************)
(* Properties of autosave                                                  *)
(***************************************************************************)
\* No call is in progress.
Quiet == \A w \in Workers : th[w].pc = "idle"

\* The file holds what json.dump writes for the collection in memory (no
\* file yet: the collection is empty).
Synced ==
    IF invFile.kind = "absent" THEN items = <<>>
    ELSE invFile = save(items, heap)

\* C24: on an agent with autosave on whose writes succeed, whenever no call
\* of a thread is in progress the file holds the collection in memory; on
\* an agent with autosave off the file changes only by the os.replace of a
\* save() that a thread called itself.
C24_FileFollowsMemory ==
    /\ [](autosave /\ Quiet => Synced)
    /\ [][(~autosave /\ invFile' # invFile)
             => \E w \in Workers : /\ th[w].pc = "replace"
                                   /\ th[w].frames = <<"save">>
                                   /\ th'[w].pc = "release"]_vars

\* With autosave on, calls of the threads have added the item, allocated it
\* and released it, no call is in progress, and the file holds both
\* history entries.
C24_HistoriesPersisted ==
    /\ autosave
    /\ Quiet
    /\ invFile.kind = "dict"
    /\ "SN1" \in DOMAIN invFile.data
    /\ invFile.data["SN1"].allocations.present
    /\ invFile.data["SN1"].releases.present
    /\ Len(invFile.data["SN1"].releases.value) = 1

(***************************************************************************)
(* Properties of update_item                                               *)
(***************************************************************************)
\* The non-list fields update_item was given, serial left out.
PlainKeys(updates) == DOMAIN updates \ ({"serial"} \cup ListKeys)

\* C25: update_item on a serial the collection does not hold raises KeyError
\* and leaves the collection, its lists and the file as they were; on a
\* serial it holds it sets the fields it was given except serial, and
\* leaves the item's serial, the item's key and the other items alone; and
\* in every state each item's serial field is the key it is stored under,
\* which is a normalized serial.
C25_SerialIsKey ==
    /\ [](\A k \in DOMAIN items :
             items[k].serial = k /\ _normalize_serial(k) = k)
    /\ [][UpdateItem
            => LET sn == _normalize_serial(invCall'.serial)
               IN  IF sn \notin DOMAIN items
                   THEN /\ invCall'.raised = "KeyError"
                        /\ items' = items
                        /\ heap' = heap
                        /\ invFile' = invFile
                   ELSE /\ invCall'.raised = "none"
                        /\ DOMAIN items' = DOMAIN items
                        /\ items'[sn].serial = items[sn].serial
                        /\ \A k \in DOMAIN items \ {sn} : items'[k] = items[k]
                        /\ \E updates \in UpdateArgs :
                              /\ \A f \in PlainKeys(updates) :
                                    items'[sn][f] = updates[f]
                              /\ \A f \in DOMAIN items[sn] \ DOMAIN updates :
                                    items'[sn][f] = items[sn][f]]_vars

\* An item loaded from a mapping file was updated with a
\* dict that holds a serial and an owner: the owner was set, the serial
\* was not.
C25_SuppliedSerialIgnored ==
    /\ invCall.op = "update_item"
    /\ invCall.raised = "none"
    /\ "SN1" \in DOMAIN items
    /\ items["SN1"].owner = "bob"
    /\ items["SN1"].serial = "SN1"

(***************************************************************************)
(* Properties of the timestamps                                            *)
(***************************************************************************)
\* C26: every ticket create_ticket has produced, as returned and as stored,
\* has created_at equal to updated_at, however the clock advanced between
\* the two reads.
C26_TimestampsEqual ==
    /\ \A t \in created : t.created_at = t.updated_at
    /\ (tkCall.op = "create_ticket" /\ tkCall.result.status = "success")
          => \E i \in 1..Len(_read_tickets(ticketsFile)) :
                /\ _read_tickets(ticketsFile)[i] = tkCall.result.ticket
                /\ _read_tickets(ticketsFile)[i].created_at
                      = _read_tickets(ticketsFile)[i].updated_at

(***************************************************************************)
(* Properties of the histories                                             *)
(***************************************************************************)
\* C27: every InventoryAgent operation leaves each history (allocations,
\* releases) of an item that is in the collection before and after it as it
\* was or with entries appended: the history before is a prefix of the
\* history after.
C27_HistoriesAppendOnly ==
    [][\A k \in DOMAIN items \cap DOMAIN items' :
          \A key \in HistoryKeys :
              IsPrefix(History(items, heap, k, key),
                       History(items', heap', k, key))]_vars

(***************************************************************************)
(* Properties of a failed inventory call                                   *)
(***************************************************************************)
\* C29: when a mutating InventoryAgent method raises, whether from its own
\* checks or because the write of its autosave failed, the collection in
\* memory and its lists are what they were when the method took the lock.
C29_FailedCallLeavesMemory ==
    \A w \in Workers :
        (/\ th[w].pc = "release"
         /\ th[w].exc # "none"
         /\ th[w].entry # NoneDict)
        => /\ items = th[w].entry.items
           /\ heap = th[w].entry.heap

(***************************************************************************)
(* Properties of the ticket lookup                                         *)
(***************************************************************************)
\* C30: a get_ticket_status call whose ticket id is None, empty or only
\* whitespace returns an error result and no ticket, whatever the store
\* holds.
C30_BlankQueryRejected ==
    (/\ tkCall.op = "get_ticket_status"
     /\ (Falsy(tkCall.arg) \/ str_strip(tkCall.arg) = ""))
    => /\ tkCall.result.status = "error"
       /\ "ticket" \notin DOMAIN tkCall.result

=============================================================================
